---------------------------- MODULE Spec2Model ----------------------------
(***************************************************************************)
(* Verification model of the anime recommendation engine                   *)
(* (backend/app/models, backend/train_models.py).                          *)
(*                                                                         *)
(* The module holds several specifications over one set of variables:      *)
(*   SpecSplit       train_test_split (train_models.py)                    *)
(*   SpecHybridInit  HybridRecommender.__init__ (models/hybrid.py)         *)
(*   SpecModels      life cycle of one recommender instance: fit, predict, *)
(*                   predict_rating (models/*.py)                          *)
(*   SpecMetrics     the metric functions (evaluation/metrics.py)          *)
(*   SpecMetricsStore  evaluation runs saving their metrics                *)
(*                   (train_models.py save_metrics_to_mongodb)             *)
(*   SpecEvaluate    evaluate_model (train_models.py)                      *)
(*   SpecRate        concurrent rate_anime requests (app/api/user.py)      *)
(* Every specification keeps the variables of the others at their idle     *)
(* values.                                                                 *)
(*                                                                         *)
(* Numbers.  Python floats are modelled by integers: a similarity is an    *)
(* integer number of hundredths (0..SimScale), a predicted rating or a     *)
(* score an integer number of thousandths (FP).  Constructor weights and   *)
(* test_ratio are exact rationals <<num, den>>.                            *)
(***************************************************************************)
EXTENDS Integers, Sequences, FiniteSets, TLC

VARIABLES
    \* ---- train_test_split (train_models.py:52-94) ----
    ratings,        \* argument: the list of rating events
    test_ratio,     \* argument: <<num, den>>
    min_ratings,    \* argument
    user_ratings,   \* local: the events grouped by user, [user_order[i]] -> list
    user_order,     \* local: the dict's keys in insertion order
    train,          \* local, returned
    test,           \* local, returned
    split_pc,       \* position in train_test_split
    \* ---- HybridRecommender.__init__ (hybrid.py:22-51) ----
    ctor_args,      \* <<content_weight, item_cf_weight, user_cf_weight>>, tenths
    ctor_pc,        \* "call" | "constructed" | "raised"
    ctor_self,      \* the attributes __init__ has stored
    \* ---- one recommender instance (models/*.py) ----
    kind,           \* "item" | "user" | "content" | "hybrid"
    self,           \* the instance's attributes
    nfits,          \* number of fit calls made on the instance
    fit_ok,         \* per fit call made, whether it returned (did not raise)
    fit_args,       \* the arguments of the last fit call
    result,         \* the outcome of the last predict / predict_rating call
    \* ---- metric functions (evaluation/metrics.py) ----
    metric_args,    \* the arguments of the metric call
    metric_out,     \* the function called last and the value it returned
    \* ---- save_metrics_to_mongodb (train_models.py:198-221) ----
    metrics_col,    \* the model_metrics collection: documents in insertion order
    save_runs,      \* per evaluation run: position in the call, arguments, doc
    save_clock,     \* datetime.utcnow(), as the number of calls begun
    save_done,      \* the runs whose call has returned, in order of return
    \* ---- evaluate_model (train_models.py:97-195) ----
    eval_args,      \* model, test_ratings, train_ratings, k, threshold
    eval_pc,        \* "users" | "ratings" | "returned"
    eval_todo,      \* users_to_evaluate and test_sample not yet visited
    eval_acc,       \* rating_predictions, all_precisions, ..., all_ndcgs
    eval_calls,     \* the calls made on the model so far, and how each ended
    eval_metrics,   \* the returned metrics record
    \* ---- rate_anime (app/api/user.py:187-251) ----
    rate_index,     \* whether ratings has the unique (user_id, anime_id) index
    ratings_col,    \* the ratings collection: documents in insertion order
    history_col,    \* the user_history collection
    rate_calls,     \* per request: position in rate_anime, arguments, locals
    rate_clock,     \* datetime.utcnow(), as the number of readings made
    rate_order      \* the requests that returned success, in order of return

splitVars == <<ratings, test_ratio, min_ratings, user_ratings, user_order,
               train, test, split_pc>>
ctorVars  == <<ctor_args, ctor_pc, ctor_self>>
modelVars == <<kind, self, nfits, fit_ok, fit_args, result>>
metricVars == <<metric_args, metric_out>>
storeVars == <<metrics_col, save_runs, save_clock, save_done>>
evalVars == <<eval_args, eval_pc, eval_todo, eval_acc, eval_calls, eval_metrics>>
rateVars == <<rate_index, ratings_col, history_col, rate_calls, rate_clock, rate_order>>
evaluationVars == <<metricVars, storeVars, evalVars, rateVars>>
vars      == <<splitVars, ctorVars, modelVars, evaluationVars>>

-----------------------------------------------------------------------------
(* Generic helpers                                                         *)

Min(a, b) == IF a <= b THEN a ELSE b
Max(a, b) == IF a >= b THEN a ELSE b
Abs(a)    == IF a < 0 THEN -a ELSE a

Range(s) == {s[i] : i \in 1..Len(s)}

RECURSIVE GCD(_, _)
GCD(a, b) == IF b = 0 THEN a ELSE GCD(b, a % b)

RECURSIVE SumSeq(_)
SumSeq(s) == IF s = <<>> THEN 0 ELSE Head(s) + SumSeq(Tail(s))

RECURSIVE SumOver(_, _)
\* Sum of f[x] over the finite set S.
SumOver(S, f) ==
    IF S = {} THEN 0
    ELSE LET x == CHOOSE y \in S : TRUE IN f[x] + SumOver(S \ {x}, f)

\* The elements of a finite set of integers, ascending: Python sorted(set(..)).
RECURSIVE SortedSeq(_)
SortedSeq(S) ==
    IF S = {} THEN <<>>
    ELSE LET m == CHOOSE x \in S : \A y \in S : x <= y
         IN <<m>> \o SortedSeq(S \ {m})

\* Position of x in the sequence s (first occurrence), 0 when absent.
IndexOf(s, x) ==
    IF x \in Range(s) THEN CHOOSE i \in 1..Len(s) : s[i] = x /\ \A j \in 1..(i-1) : s[j] # x
    ELSE 0

\* The subsequence of s whose elements satisfy Keep (a set), order kept.
RECURSIVE FilterSeq(_, _)
FilterSeq(s, Keep) ==
    IF s = <<>> THEN <<>>
    ELSE IF Head(s) \in Keep THEN <<Head(s)>> \o FilterSeq(Tail(s), Keep)
         ELSE FilterSeq(Tail(s), Keep)

\* Python int(x) of the rational a/b (b > 0): truncation towards zero.
TruncDiv(a, b) == IF a >= 0 THEN a \div b ELSE -((-a) \div b)

\* Python slice bound: a negative bound counts from the end, all clipped.
SliceBound(i, len) == IF i < 0 THEN Max(0, len + i) ELSE Min(i, len)
\* s[:i] and s[i:] of Python
PyPrefix(s, i) == SubSeq(s, 1, SliceBound(i, Len(s)))
\* The suffix that starts one element late.
PySuffix_SkipsOne(s, i) == SubSeq(s, SliceBound(i, Len(s)) + 2, Len(s))
PySuffix(s, i) == SubSeq(s, SliceBound(i, Len(s)) + 1, Len(s))

\* All orders of the index set 1..n, as sequences.
PermsOf(n) == {p \in [1..n -> 1..n] : \A i, j \in 1..n : i # j => p[i] # p[j]}
PermsTable == [n \in 0..4 |-> PermsOf(n)]
Perms(n) == IF n \in DOMAIN PermsTable THEN PermsTable[n] ELSE PermsOf(n)

\* Number of elements of the sequence s for which s[i].user_id = u.
CountUser(s, u) == Cardinality({i \in 1..Len(s) : s[i].user_id = u})
\* Number of occurrences of the event e in the sequence s.
CountEvent(s, e) == Cardinality({i \in 1..Len(s) : s[i] = e})

-----------------------------------------------------------------------------
(* train_test_split(ratings, test_ratio, min_ratings)                      *)
(* train_models.py:52-94                                                   *)

MaxSplitEvents == 4

SplitUserIds  == {1, 2}
SplitAnimeIds == {1, 2}
\* The splitter reads only user_id of an event; anime_id tells events apart.
SplitEvents == [user_id : SplitUserIds, anime_id : SplitAnimeIds]
SplitInputs == UNION {[1..n -> SplitEvents] : n \in 0..MaxSplitEvents}
\* test_ratio: below 0, 0, the default 0.2, 0.5, 1 and above 1
TestRatios == {<<-1, 2>>, <<0, 1>>, <<1, 5>>, <<1, 2>>, <<1, 1>>, <<3, 2>>}
MinRatingsChoices == -1..3

Idle == "idle"

\* The keys of the defaultdict in insertion order (train_models.py:68-70).
RECURSIVE FirstSeenUsers(_, _)
FirstSeenUsers(rs, seen) ==
    IF rs = <<>> THEN <<>>
    ELSE IF Head(rs).user_id \in seen THEN FirstSeenUsers(Tail(rs), seen)
         ELSE <<Head(rs).user_id>> \o FirstSeenUsers(Tail(rs), seen \cup {Head(rs).user_id})

RECURSIVE EventsOfUser(_, _)
EventsOfUser(rs, u) ==
    IF rs = <<>> THEN <<>>
    ELSE IF Head(rs).user_id = u THEN <<Head(rs)>> \o EventsOfUser(Tail(rs), u)
         ELSE EventsOfUser(Tail(rs), u)

\* train_models.py:82  n_test = max(1, int(len(user_r) * test_ratio))
NTest(len, ratio) == Max(1, TruncDiv(len * ratio[1], ratio[2]))

\* train_models.py:83-88: the guard that keeps min_ratings events in train
NTrain_NoGuard(len, ratio, minr) == len - NTest(len, ratio)
NTrain_GuardOffByOne(len, ratio, minr) ==
    LET n0 == len - NTest(len, ratio)
    IN IF n0 < minr THEN minr - 1 ELSE n0
NTrain(len, ratio, minr) ==
    LET n0 == len - NTest(len, ratio)
    IN IF n0 < minr THEN minr ELSE n0

SplitInit ==
    /\ ratings \in SplitInputs
    /\ test_ratio \in TestRatios
    /\ min_ratings \in MinRatingsChoices
    /\ user_ratings = <<>>
    /\ user_order = <<>>
    /\ train = <<>>
    /\ test = <<>>
    /\ split_pc = "group"

\* train_models.py:67-73: group the events by user
SplitGroup ==
    /\ split_pc = "group"
    /\ user_order' = FirstSeenUsers(ratings, {})
    /\ user_ratings' = [i \in 1..Len(user_order') |-> EventsOfUser(ratings, user_order'[i])]
    /\ split_pc' = "loop"
    /\ UNCHANGED <<ratings, test_ratio, min_ratings, train, test>>

\* train_models.py:75-91: one iteration of the loop over user_ratings.items().
\* The iteration handles the first user not handled yet.
SplitUser ==
    /\ split_pc = "loop"
    /\ user_ratings # <<>>
    /\ LET user_r == Head(user_ratings) IN
       IF Len(user_r) <= min_ratings
       THEN /\ train' = train \o user_r
            /\ test' = test
       ELSE \E p \in Perms(Len(user_r)) :            \* random.shuffle(user_r)
              LET shuffled == [i \in 1..Len(user_r) |-> user_r[p[i]]]
                  n_train  == NTrain(Len(user_r), test_ratio, min_ratings)
              IN /\ train' = train \o PyPrefix(shuffled, n_train)
                 /\ test' = test \o PySuffix(shuffled, n_train)
    /\ user_ratings' = Tail(user_ratings)
    /\ UNCHANGED <<ratings, test_ratio, min_ratings, user_order, split_pc>>

\* train_models.py:93-94: the loop is over, return (train, test)
SplitReturn ==
    /\ split_pc = "loop"
    /\ user_ratings = <<>>
    /\ split_pc' = "done"
    /\ UNCHANGED <<ratings, test_ratio, min_ratings, user_ratings, user_order, train, test>>

CtorIdle ==
    /\ ctor_args = Idle
    /\ ctor_pc = Idle
    /\ ctor_self = Idle

ModelIdle ==
    /\ kind = Idle
    /\ self = Idle
    /\ nfits = 0
    /\ fit_ok = FALSE
    /\ fit_args = Idle
    /\ result = Idle

MetricIdle ==
    /\ metric_args = Idle
    /\ metric_out = Idle

StoreIdle ==
    /\ metrics_col = Idle
    /\ save_runs = Idle
    /\ save_clock = 0
    /\ save_done = Idle

EvalIdle ==
    /\ eval_args = Idle
    /\ eval_pc = Idle
    /\ eval_todo = Idle
    /\ eval_acc = Idle
    /\ eval_calls = Idle
    /\ eval_metrics = Idle

RateIdle ==
    /\ rate_index = Idle
    /\ ratings_col = Idle
    /\ history_col = Idle
    /\ rate_calls = Idle
    /\ rate_clock = 0
    /\ rate_order = Idle

EvaluationIdle == MetricIdle /\ StoreIdle /\ EvalIdle /\ RateIdle

SplitNext ==
    \/ SplitGroup /\ UNCHANGED <<ctorVars, modelVars, evaluationVars>>
    \/ SplitUser /\ UNCHANGED <<ctorVars, modelVars, evaluationVars>>
    \/ SplitReturn /\ UNCHANGED <<ctorVars, modelVars, evaluationVars>>

InitSplit == SplitInit /\ CtorIdle /\ ModelIdle /\ EvaluationIdle

SpecSplit == InitSplit /\ [][SplitNext]_vars

\* C2: when train_test_split returns, every user has at least
\* min(min_ratings, number of that user's events) events in train.
C2_TrainKeepsMin ==
    split_pc = "done" =>
        \A u \in SplitUserIds :
            CountUser(train, u) >= Min(min_ratings, CountUser(ratings, u))

\* A user with more events than min_ratings whose train share was raised to
\* min_ratings by the guard.
C2_Witness ==
    /\ split_pc = "done"
    /\ min_ratings >= 1
    /\ \E u \in SplitUserIds :
        /\ CountUser(ratings, u) > min_ratings
        /\ CountUser(train, u) = min_ratings
        /\ CountUser(ratings, u) - NTest(CountUser(ratings, u), test_ratio) < min_ratings

\* C3: when train_test_split returns, a user with an event in test has at
\* least min_ratings events in train, and a user with at most min_ratings
\* events has all of them in train and none in test.
C3_TestUsersEstablished ==
    split_pc = "done" =>
        \A u \in SplitUserIds :
            /\ CountUser(test, u) > 0 => CountUser(train, u) >= min_ratings
            /\ CountUser(ratings, u) <= min_ratings =>
                  /\ CountUser(train, u) = CountUser(ratings, u)
                  /\ CountUser(test, u) = 0

\* One user split between train and test, another kept whole in train.
C3_Witness ==
    /\ split_pc = "done"
    /\ \E u, v \in SplitUserIds :
        /\ CountUser(test, u) > 0
        /\ CountUser(train, u) >= 1
        /\ CountUser(ratings, v) >= 1
        /\ CountUser(ratings, v) <= min_ratings
        /\ CountUser(train, v) = CountUser(ratings, v)

-----------------------------------------------------------------------------
(* Exact rationals <<num, den>>, den > 0, in lowest terms                  *)

Rat(n, d) ==
    LET g == GCD(Abs(n), Abs(d))
        sgn == IF d < 0 THEN -1 ELSE 1
    IN <<sgn * (n \div g), sgn * (d \div g)>>
RatAdd(a, b) == Rat(a[1] * b[2] + b[1] * a[2], a[2] * b[2])
RatMul(a, b) == Rat(a[1] * b[1], a[2] * b[2])
RatLess(a, b) == a[1] * b[2] < b[1] * a[2]

-----------------------------------------------------------------------------
(* HybridRecommender.__init__(content_weight, item_cf_weight,              *)
(* user_cf_weight)   hybrid.py:22-51                                       *)

\* Caller-supplied weights, in tenths (3 is 0.3).
WeightChoices == -1..4

\* hybrid.py:41-45: total = sum of the three; each weight /= total.
\* A total of 0 raises ZeroDivisionError at the first division (line 43).
NormalizeWeights(w) ==
    LET total == w[1] + w[2] + w[3]
    IN IF total = 0
       THEN [raised |-> TRUE, weights |-> <<Rat(w[1], 10), Rat(w[2], 10), Rat(w[3], 10)>>]
       ELSE [raised |-> FALSE,
             weights |-> <<Rat(w[1], total), Rat(w[2], total), Rat(w[3], total)>>]

CtorInit ==
    /\ ctor_args \in WeightChoices \X WeightChoices \X WeightChoices
    /\ ctor_pc = "call"
    /\ ctor_self = Idle

\* hybrid.py:36-51
HybridInit ==
    /\ ctor_pc = "call"
    /\ LET r == NormalizeWeights(ctor_args) IN
        /\ ctor_self' = [content_weight |-> r.weights[1],
                         item_cf_weight |-> r.weights[2],
                         user_cf_weight |-> r.weights[3]]
        /\ ctor_pc' = IF r.raised THEN "raised" ELSE "constructed"
    /\ UNCHANGED ctor_args

SplitIdle ==
    /\ ratings = Idle
    /\ test_ratio = Idle
    /\ min_ratings = Idle
    /\ user_ratings = Idle
    /\ user_order = Idle
    /\ train = Idle
    /\ test = Idle
    /\ split_pc = Idle

CtorNext == HybridInit /\ UNCHANGED <<splitVars, modelVars, evaluationVars>>

InitCtor == CtorInit /\ SplitIdle /\ ModelIdle /\ EvaluationIdle

SpecHybridInit == InitCtor /\ [][CtorNext]_vars

\* The stored weights are the inputs divided by their total, and sum to 1.
StoredWeightsNormalized ==
    LET total == ctor_args[1] + ctor_args[2] + ctor_args[3]
        w == <<ctor_self.content_weight, ctor_self.item_cf_weight, ctor_self.user_cf_weight>>
    IN /\ \A k \in 1..3 : w[k][1] * total = ctor_args[k] * w[k][2]
       /\ RatAdd(RatAdd(w[1], w[2]), w[3]) = <<1, 1>>

\* C4: for all caller-supplied weights the construction ends with three
\* stored weights that are the inputs divided by their total and sum to 1.
C4_WeightsSumToOne ==
    ctor_pc # "call" => (ctor_pc = "constructed" /\ StoredWeightsNormalized)

-----------------------------------------------------------------------------
(* Numeric building blocks shared by the recommenders                      *)

\* Python None.  No attribute of the model holds a string, so <<>> is kept
\* apart from every value the code tests with "is None" or truthiness.
None == <<>>

\* One rating point in thousandths, a similarity of 1.0 in hundredths.
FP == 10 * 10 * 10
SimScale == 10 * 10

\* The outcome of a call: a returned value or a raised exception.
Return(v) == [status |-> "return", value |-> v]
Raise(e) == [status |-> "raise", value |-> e]

Dot(x, y) == SumSeq([i \in 1..Len(x) |-> x[i] * y[i]])
Column(M, j) == [i \in 1..Len(M) |-> M[i][j]]
Transpose(M, ncols) == [j \in 1..ncols |-> Column(M, j)]
MaxOf(v) == CHOOSE m \in Range(v) : \A x \in Range(v) : x <= m

\* sklearn cosine_similarity of two vectors from their dot product and their
\* squared norms, rounded down to hundredths.  normalize() leaves an all-zero
\* vector as it is, so its similarity to every vector, itself included, is 0.
CosSim(dot, nx, ny) ==
    IF dot = 0 \/ nx = 0 \/ ny = 0 THEN 0
    ELSE LET a == dot * dot
             b == nx * ny
             g == GCD(a, b)
             x == (SimScale * SimScale * (a \div g)) \div (b \div g)
         IN CHOOSE s \in 0..SimScale : s * s <= x /\ (s + 1) * (s + 1) > x

\* cosine_similarity(rows): all pairwise similarities of the rows.
CosineSimilarity(rows) ==
    [i \in 1..Len(rows) |-> [j \in 1..Len(rows) |->
        CosSim(Dot(rows[i], rows[j]), Dot(rows[i], rows[i]), Dot(rows[j], rows[j]))]]

\* The index orders v.argsort()[::-1] can return: numpy's default sort is not
\* stable, so equal values may come out in any order.
DescOrders(v) ==
    {p \in Perms(Len(v)) : \A i \in 1..(Len(v) - 1) : v[p[i]] >= v[p[i + 1]]}

\* The k largest of the indices S under val (argsort()[::-1][:k]), as a set:
\* every choice among equal values is possible.
TopKSets(S, val, k) ==
    IF Cardinality(S) <= k THEN {S}
    ELSE {T \in SUBSET S : /\ Cardinality(T) = k
                           /\ \A a \in T, b \in S \ T : val[a] >= val[b]}

\* Python's stable sort of a list of <<key, payload>> pairs, reverse=True:
\* descending keys, equal keys in their original order.
RECURSIVE InsertDesc(_, _)
InsertDesc(sorted, x) ==
    IF sorted = <<>> THEN <<x>>
    ELSE IF Head(sorted)[1] >= x[1] THEN <<Head(sorted)>> \o InsertDesc(Tail(sorted), x)
         ELSE <<x>> \o sorted
RECURSIVE SortedDesc(_)
SortedDesc(s) ==
    IF s = <<>> THEN <<>>
    ELSE InsertDesc(SortedDesc(SubSeq(s, 1, Len(s) - 1)), s[Len(s)])

\* csr_matrix((values, (rows, cols)), shape): one cell per (user, item), the
\* events with rating > 0 only, duplicate coordinates summed.
BuildRatingMatrix(rs, users, items) ==
    [i \in 1..Len(users) |-> [j \in 1..Len(items) |->
        SumSeq([k \in 1..Len(rs) |->
            IF rs[k].user_id = users[i] /\ rs[k].anime_id = items[j] /\ rs[k].rating > 0
            THEN rs[k].rating ELSE 0])]]

\* sum / count of the non-zero entries of a vector, 0 where there is none
\* (np.divide(..., out=zeros, where=counts > 0)), in thousandths.
MeanOfRated(v) ==
    LET cnt == Cardinality({i \in 1..Len(v) : v[i] > 0})
    IN IF cnt > 0 THEN (SumSeq(v) * FP) \div cnt ELSE 0

\* The mean taken over the positive entries only.
MeanOf_PositiveOnly(v) ==
    LET cnt == Cardinality({i \in 1..Len(v) : v[i] > 0})
    IN IF cnt > 0 THEN SumSeq(v) \div cnt ELSE 0

\* numpy mean of a non-empty vector.
MeanOf(v) == SumSeq(v) \div Len(v)

\* The first n of the order, scores of 0 included.
TopPositive_KeepZero(score, p, n, ids) ==
    LET top == SubSeq(p, 1, Min(n, Len(p)))
    IN [i \in 1..Len(top) |-> ids[top[i]]]

\* [ids[p[i]] for i < n if score[p[i]] > 0]
TopPositive(score, p, n, ids) ==
    LET top == SubSeq(p, 1, Min(n, Len(p)))
        sel == SelectSeq(top, LAMBDA j : score[j] > 0)
    IN [i \in 1..Len(sel) |-> ids[sel[i]]]

-----------------------------------------------------------------------------
(* ItemBasedRecommender   models/item_based.py                             *)
(* The dicts user_id_to_idx / anime_id_to_idx / idx_to_anime_id are the    *)
(* sorted id sequences: the index of an id is its position.                *)

\* Largest item count for which fit materializes the similarity matrix.
ItemSimilarityLimit == 15000

\* item_based.py:22-31 and base_model.py:26; popularity_weight in tenths
ItemNew(k, pw) ==
    [k_neighbors |-> k, popularity_weight |-> pw, item_similarity |-> None,
     rating_matrix |-> None, user_id_to_idx |-> <<>>, anime_id_to_idx |-> <<>>,
     item_means |-> None, is_fitted |-> FALSE]

\* item_based.py:33-99.  cosine_similarity rejects a matrix with no rows
\* (ValueError), which leaves the attributes assigned before line 90 changed
\* and item_similarity / is_fitted as they were.
ItemFit(s, rs) ==
    LET users == SortedSeq({rs[i].user_id : i \in 1..Len(rs)})
        items == SortedSeq({rs[i].anime_id : i \in 1..Len(rs)})
        M == BuildRatingMatrix(rs, users, items)
        cols == Transpose(M, Len(items))
        s1 == [s EXCEPT !.user_id_to_idx = users, !.anime_id_to_idx = items,
                        !.rating_matrix = M,
                        !.item_means = [j \in 1..Len(items) |-> MeanOfRated(cols[j])]]
    IN IF Len(items) <= ItemSimilarityLimit
       THEN IF Len(items) = 0
            THEN [raised |-> TRUE, self |-> s1]
            ELSE [raised |-> FALSE,
                  self |-> [s1 EXCEPT !.item_similarity = CosineSimilarity(cols),
                                      !.is_fitted = TRUE]]
       ELSE [raised |-> FALSE,
             self |-> [s1 EXCEPT !.item_similarity = None, !.is_fitted = TRUE]]

\* item_based.py:101-109: the dense similarity row of one item
GetItemSimilarities(s, idx) ==
    IF s.item_similarity # None THEN s.item_similarity[idx]
    ELSE LET cols == Transpose(s.rating_matrix, Len(s.anime_id_to_idx))
         IN [j \in 1..Len(cols) |->
                CosSim(Dot(cols[idx], cols[j]), Dot(cols[idx], cols[idx]), Dot(cols[j], cols[j]))]

\* item_based.py:151-161 and 173-174: the neighbours of a rated item that
\* are visited.  The sparse row stores the non-zero similarities only.
ItemNeighbours(s, idx) ==
    LET row == GetItemSimilarities(s, idx)
    IN IF s.item_similarity # None
       THEN TopKSets({j \in 1..Len(row) : row[j] > 0}, row, s.k_neighbors)
       ELSE TopKSets(1..Len(row), row, s.k_neighbors)

\* item_based.py:148-182: the neighbour sets the loop over the rated items
\* can visit, one set for each rated item
ItemNeighbourChoices(s, rated) ==
    LET nbs == [i \in rated |-> ItemNeighbours(s, i)]
    IN {nb \in [rated -> UNION {nbs[i] : i \in rated}] : \A i \in rated : nb[i] \in nbs[i]}

\* item_based.py:190: the popularity of each item, the sum of its column
ItemPopularity(s) ==
    [j \in 1..Len(s.anime_id_to_idx) |-> SumSeq(Column(s.rating_matrix, j))]

\* item_based.py:141-199: the prediction vector, for the neighbour sets nb
\* and the popularity vector popularity
ItemScoresBy(s, uidx, nb, popularity) ==
    LET row == s.rating_matrix[uidx]
        ni == Len(row)
        rated == {j \in 1..ni : row[j] > 0}
        sim == [i \in rated |-> GetItemSimilarities(s, i)]
        from(j) == {i \in rated : j \in nb[i] /\ sim[i][j] > 0}
        num == [j \in 1..ni |-> SumOver(from(j), [i \in rated |-> sim[i][j] * row[i]])]
        den == [j \in 1..ni |-> SumOver(from(j), [i \in rated |-> sim[i][j]])]
        valid == {j \in 1..ni : j \notin rated /\ den[j] > 0}
        pred == [j \in 1..ni |-> IF j \in valid THEN (num[j] * FP) \div den[j] ELSE 0]
        pop == popularity
        max_pred == IF MaxOf(pred) > 0 THEN MaxOf(pred) ELSE FP
        blended == [j \in 1..ni |->
            IF s.popularity_weight > 0 /\ MaxOf(pop) > 0 /\ j \in valid
            THEN ((10 - s.popularity_weight) * pred[j]
                  + s.popularity_weight * ((pop[j] * max_pred) \div MaxOf(pop))) \div 10
            ELSE pred[j]]
    IN [j \in 1..ni |-> IF j \in rated THEN 0 ELSE blended[j]]

ItemScores(s, uidx, nb) == ItemScoresBy(s, uidx, nb, ItemPopularity(s))

\* item_based.py:111-201: the outcomes predict(user_id, n) can have, for the
\* popularity vector popularity
ItemPredictBy(s, user_id, n, popularity) ==
    IF ~s.is_fitted THEN {Raise("RuntimeError")}
    ELSE IF user_id \notin Range(s.user_id_to_idx) THEN {Return(<<>>)}
    ELSE LET uidx == IndexOf(s.user_id_to_idx, user_id)
             row == s.rating_matrix[uidx]
             rated == {j \in 1..Len(row) : row[j] > 0}
             choices == ItemNeighbourChoices(s, rated)
         IN IF rated = {} THEN {Return(<<>>)}
            ELSE UNION {LET sc == ItemScoresBy(s, uidx, nb, popularity)
                        IN {Return(TopPositive(sc, p, n, s.anime_id_to_idx)) :
                               p \in DescOrders(sc)} : nb \in choices}

ItemPredict(s, user_id, n) == ItemPredictBy(s, user_id, n, ItemPopularity(s))

\* item_based.py:203-245 without the cut to k_neighbors of line 235.
ItemPredictRating_AllNeighbours(s, user_id, anime_id) ==
    IF ~s.is_fitted THEN 5 * FP
    ELSE IF user_id \notin Range(s.user_id_to_idx) \/ anime_id \notin Range(s.anime_id_to_idx)
    THEN IF Len(s.item_means) > 0 THEN MeanOf(s.item_means) ELSE 5 * FP
    ELSE LET uidx == IndexOf(s.user_id_to_idx, user_id)
             iidx == IndexOf(s.anime_id_to_idx, anime_id)
             row == s.rating_matrix[uidx]
             sims == GetItemSimilarities(s, iidx)
             pos == {j \in 1..Len(row) : row[j] > 0 /\ sims[j] > 0}
             numerator == SumOver(pos, [j \in pos |-> sims[j] * row[j]])
             denominator == SumOver(pos, [j \in pos |-> sims[j]])
         IN IF denominator <= 0 THEN s.item_means[iidx]
            ELSE (numerator * FP) \div denominator

\* item_based.py:203-245
ItemPredictRating(s, user_id, anime_id) ==
    IF ~s.is_fitted THEN 5 * FP
    ELSE IF user_id \notin Range(s.user_id_to_idx) \/ anime_id \notin Range(s.anime_id_to_idx)
    THEN IF Len(s.item_means) > 0 THEN MeanOf(s.item_means) ELSE 5 * FP
    ELSE LET uidx == IndexOf(s.user_id_to_idx, user_id)
             iidx == IndexOf(s.anime_id_to_idx, anime_id)
             row == s.rating_matrix[uidx]
             rated == SelectSeq([j \in 1..Len(row) |-> j], LAMBDA j : row[j] > 0)
             sims == GetItemSimilarities(s, iidx)
             pos == SelectSeq(rated, LAMBDA j : sims[j] > 0)
             rated_sims == [i \in 1..Len(pos) |-> <<sims[pos[i]], row[pos[i]]>>]
             top_k == PyPrefix(SortedDesc(rated_sims), s.k_neighbors)
             numerator == SumSeq([i \in 1..Len(top_k) |-> top_k[i][1] * top_k[i][2]])
             denominator == SumSeq([i \in 1..Len(top_k) |-> top_k[i][1]])
         IN IF rated = <<>> \/ top_k = <<>> \/ denominator <= 0
            THEN s.item_means[iidx]
            ELSE (numerator * FP) \div denominator

-----------------------------------------------------------------------------
(* UserBasedRecommender   models/user_based.py                             *)

\* Largest user count for which fit materializes the similarity matrix.
UserSimilarityLimit == 20000

\* The concatenation of a sequence of sequences.
RECURSIVE Concat(_)
Concat(ss) == IF ss = <<>> THEN <<>> ELSE Head(ss) \o Concat(Tail(ss))

\* The distinct elements of s in order of first occurrence: the keys of a
\* dict filled in the order of s.
RECURSIVE FirstSeen(_, _)
FirstSeen(s, seen) ==
    IF s = <<>> THEN <<>>
    ELSE IF Head(s) \in seen THEN FirstSeen(Tail(s), seen)
         ELSE <<Head(s)>> \o FirstSeen(Tail(s), seen \cup {Head(s)})

\* user_based.py:22-31 and base_model.py:26
UserNew(k) ==
    [k_neighbors |-> k, user_similarity |-> None, rating_matrix |-> None,
     user_id_to_idx |-> <<>>, anime_id_to_idx |-> <<>>, user_means |-> None,
     is_fitted |-> FALSE]

\* user_based.py:33-98.  As in ItemFit, an empty matrix makes
\* cosine_similarity raise after the mappings, the matrix and the means
\* have been replaced.
UserFit(s, rs) ==
    LET users == SortedSeq({rs[i].user_id : i \in 1..Len(rs)})
        items == SortedSeq({rs[i].anime_id : i \in 1..Len(rs)})
        M == BuildRatingMatrix(rs, users, items)
        s1 == [s EXCEPT !.user_id_to_idx = users, !.anime_id_to_idx = items,
                        !.rating_matrix = M,
                        !.user_means = [i \in 1..Len(users) |-> MeanOfRated(M[i])]]
    IN IF Len(users) <= UserSimilarityLimit
       THEN IF Len(users) = 0
            THEN [raised |-> TRUE, self |-> s1]
            ELSE [raised |-> FALSE,
                  self |-> [s1 EXCEPT !.user_similarity = CosineSimilarity(M),
                                      !.is_fitted = TRUE]]
       ELSE [raised |-> FALSE,
             self |-> [s1 EXCEPT !.user_similarity = None, !.is_fitted = TRUE]]

\* user_based.py:100-108
GetUserSimilarities(s, idx) ==
    IF s.user_similarity # None THEN s.user_similarity[idx]
    ELSE LET M == s.rating_matrix
         IN [v \in 1..Len(M) |-> CosSim(Dot(M[idx], M[v]), Dot(M[idx], M[idx]), Dot(M[v], M[v]))]

\* user_based.py:137-145 and 188-196: argsort()[::-1][1:k+1] drops the first
\* position of the order and keeps the next k; neighbours with sim <= 0 are
\* skipped.
SimilarUsers(s, sims, order) ==
    SelectSeq(SubSeq(order, 2, Min(Len(order), s.k_neighbors + 1)), LAMBDA v : sims[v] > 0)

\* user_based.py:139-166, for one outcome of the argsort: the list
\* pred_ratings before it is sorted, as <<pred, item_idx>> pairs in the
\* order the predictions dict was filled
UserPredRatings(s, uidx, order) ==
    LET M == s.rating_matrix
        ni == Len(s.anime_id_to_idx)
        sims == GetUserSimilarities(s, uidx)
        rated_items == {j \in 1..ni : M[uidx][j] > 0}
        nbrs == SimilarUsers(s, sims, order)
        unseen(v) == SelectSeq([j \in 1..ni |-> j],
                               LAMBDA j : M[v][j] > 0 /\ j \notin rated_items)
        keys == FirstSeen(Concat([i \in 1..Len(nbrs) |-> unseen(nbrs[i])]), {})
        raters(j) == {v \in Range(nbrs) : M[v][j] > 0}
        pred(j) == (SumOver(raters(j), [v \in Range(nbrs) |-> sims[v] * M[v][j]]) * FP)
                   \div SumOver(raters(j), [v \in Range(nbrs) |-> sims[v]])
    IN [i \in 1..Len(keys) |-> <<pred(keys[i]), keys[i]>>]

\* user_based.py:139-171, for one outcome of the argsort
UserPredictFrom(s, uidx, order, n) ==
    LET pred_ratings == SortedDesc(UserPredRatings(s, uidx, order))
    IN [i \in 1..Min(n, Len(pred_ratings)) |-> s.anime_id_to_idx[pred_ratings[i][2]]]

\* user_based.py:110-171: the outcomes predict(user_id, n) can have
UserPredict(s, user_id, n) ==
    IF ~s.is_fitted THEN {Raise("RuntimeError")}
    ELSE IF user_id \notin Range(s.user_id_to_idx) THEN {Return(<<>>)}
    ELSE LET uidx == IndexOf(s.user_id_to_idx, user_id)
         IN {Return(UserPredictFrom(s, uidx, order, n)) :
                order \in DescOrders(GetUserSimilarities(s, uidx))}

\* user_based.py:186-207, for one outcome of the argsort
UserPredictRatingFrom(s, uidx, iidx, order) ==
    LET M == s.rating_matrix
        sims == GetUserSimilarities(s, uidx)
        nbrs == SimilarUsers(s, sims, order)
        raters == {v \in Range(nbrs) : M[v][iidx] > 0}
        weighted_sum == SumOver(raters, [v \in Range(nbrs) |-> sims[v] * M[v][iidx]])
        sim_sum == SumOver(raters, [v \in Range(nbrs) |-> sims[v]])
    IN IF sim_sum > 0 THEN (weighted_sum * FP) \div sim_sum
       ELSE IF s.user_means[uidx] > 0 THEN s.user_means[uidx] ELSE 5 * FP

\* user_based.py:173-207: the values predict_rating(user_id, anime_id) can return
UserPredictRating(s, user_id, anime_id) ==
    IF ~s.is_fitted THEN {5 * FP}
    ELSE IF user_id \notin Range(s.user_id_to_idx) \/ anime_id \notin Range(s.anime_id_to_idx)
    THEN {IF Len(s.user_means) > 0 THEN MeanOf(s.user_means) ELSE 5 * FP}
    ELSE LET uidx == IndexOf(s.user_id_to_idx, user_id)
             iidx == IndexOf(s.anime_id_to_idx, anime_id)
         IN {UserPredictRatingFrom(s, uidx, iidx, order) :
                order \in DescOrders(GetUserSimilarities(s, uidx))}

-----------------------------------------------------------------------------
(* ContentBasedRecommender   models/content_based.py                       *)
(* A catalog record is [anime_id, genre, rating]; genre is the set of the  *)
(* tokens TfidfVectorizer extracts from the joined genre string.           *)

\* The number of similar titles predict asks for per liked title.
SimilarPerLiked == 20

\* TfidfVectorizer's default weight of a term present in df of n documents
\* is idf = ln((1 + n) / (1 + df)) + 1 (before the l2 normalisation, which
\* the cosine cancels).  IdfSquared[n][df] = round(25 * idf^2).
IdfSquared ==
    << <<25>>,
       <<49, 25>>,
       <<72, 41, 25>>,
       <<92, 57, 37, 25>>,
       <<110, 72, 49, 35, 25>> >>

\* Position of the last occurrence of x in s: {aid: idx for idx, aid in
\* enumerate(ids)} keeps the last index of a repeated id.
LastIndexOf(s, x) == CHOOSE i \in 1..Len(s) : s[i] = x /\ \A j \in (i + 1)..Len(s) : s[j] # x

\* content_based.py:22-28 and base_model.py:26
ContentNew ==
    [tfidf_matrix |-> None, anime_ids |-> <<>>, anime_data |-> <<>>, is_fitted |-> FALSE]

\* The squared tf-idf weights of every document over the vocabulary.
TfidfSquared(docs) ==
    LET n == Len(docs)
        vocab == UNION {docs[i] : i \in 1..n}
        df(t) == Cardinality({i \in 1..n : t \in docs[i]})
    IN [i \in 1..n |-> [t \in vocab |-> IF t \in docs[i] THEN IdfSquared[n][df(t)] ELSE 0]]

\* content_based.py:30-63.  fit_transform raises ValueError (empty
\* vocabulary) when no document has a token; lines 43-45 have run by then,
\* tfidf_matrix and is_fitted keep their values.
ContentFit(s, anime_data) ==
    LET ids == [i \in 1..Len(anime_data) |-> anime_data[i].anime_id]
        docs == [i \in 1..Len(anime_data) |-> anime_data[i].genre]
        s1 == [s EXCEPT !.anime_ids = ids,
                        !.anime_data = [a \in Range(ids) |-> anime_data[LastIndexOf(ids, a)]]]
    IN IF UNION {docs[i] : i \in 1..Len(docs)} = {}
       THEN [raised |-> TRUE, self |-> s1]
       ELSE [raised |-> FALSE,
             self |-> [s1 EXCEPT !.tfidf_matrix = TfidfSquared(docs), !.is_fitted = TRUE]]

\* content_based.py:85-86: cosine of one tf-idf row with every row
ContentSimilarities(s, idx) ==
    LET W == s.tfidf_matrix
        dot(i, j) == SumOver({t \in DOMAIN W[i] : W[i][t] > 0 /\ W[j][t] > 0}, W[i])
        norm(i) == SumOver(DOMAIN W[i], W[i])
    IN [j \in 1..Len(W) |-> CosSim(dot(idx, j), norm(idx), norm(j))]

\* content_based.py:79-91 of get_similar_anime, on a fitted model: the lists
\* it can return (is_fitted is tested by the caller, predict, line 105)
GetSimilarAnime(s, anime_id, n) ==
    IF anime_id \notin Range(s.anime_ids) THEN {<<>>}
    ELSE LET sims == ContentSimilarities(s, LastIndexOf(s.anime_ids, anime_id))
         IN {[i \in 1..(Min(Len(order), n + 1) - 1) |-> s.anime_ids[order[i + 1]]] :
                order \in DescOrders(sims)}

\* content_based.py:65-91: the outcomes of get_similar_anime(anime_id, n)
ContentGetSimilarAnime(s, anime_id, n) ==
    IF ~s.is_fitted THEN {Raise("RuntimeError")}
    ELSE {Return(l) : l \in GetSimilarAnime(s, anime_id, n)}

\* content_based.py:113-114: one similar list per liked title, concatenated
RECURSIVE SimilarOfLiked(_, _)
SimilarOfLiked(s, liked) ==
    IF liked = <<>> THEN {<<>>}
    ELSE {a \o b : a \in GetSimilarAnime(s, Head(liked), SimilarPerLiked),
                   b \in SimilarOfLiked(s, Tail(liked))}

\* content_based.py:115-121
RankByFrequency(similar, liked, n) ==
    LET visits == SelectSeq(similar, LAMBDA x : x \notin Range(liked))
        keys == FirstSeen(visits, {})
        count(x) == Cardinality({i \in 1..Len(visits) : visits[i] = x})
        sorted_recs == SortedDesc([i \in 1..Len(keys) |-> <<count(keys[i]), keys[i]>>])
    IN [i \in 1..Min(n, Len(sorted_recs)) |-> sorted_recs[i][2]]

\* content_based.py:93-121: the outcomes of predict(user_id, n, liked_anime_ids);
\* liked is None or a list
ContentPredict(s, user_id, n, liked) ==
    IF ~s.is_fitted THEN {Raise("RuntimeError")}
    ELSE IF liked = None \/ liked = <<>> THEN {Return(<<>>)}
    ELSE {Return(RankByFrequency(similar, liked, n)) : similar \in SimilarOfLiked(s, liked)}

\* content_based.py:123-130
ContentPredictRating(s, user_id, anime_id) ==
    IF anime_id \in DOMAIN s.anime_data
    THEN IF "rating" \in DOMAIN s.anime_data[anime_id]
         THEN s.anime_data[anime_id].rating ELSE 5 * FP
    ELSE 5 * FP

-----------------------------------------------------------------------------
(* HybridRecommender   models/hybrid.py                                    *)

\* Defaults of the sub-model constructors (popularity_weight in tenths).
ItemDefaultKNeighbors == 50
ItemDefaultPopularityWeight == 3
UserDefaultKNeighbors == 50
\* A rating from which a title counts as liked.
LikedThreshold == 7

RatFloor(a) == IF a[1] >= 0 THEN a[1] \div a[2] ELSE -((-a[1] + a[2] - 1) \div a[2])

\* hybrid.py:36-51, for weights whose total is not 0
HybridNew(w) ==
    [content_weight |-> NormalizeWeights(w).weights[1],
     item_cf_weight |-> NormalizeWeights(w).weights[2],
     user_cf_weight |-> NormalizeWeights(w).weights[3],
     content_model |-> None, item_cf_model |-> None, user_cf_model |-> None,
     user_ratings |-> <<>>, is_fitted |-> FALSE]

\* hybrid.py:74-76.  user_ratings maps a user id to the dict of that user,
\* kept as the list of <<anime_id, rating>> in key insertion order.
SetUserRating(ur, u, a, v) ==
    LET old == IF u \in DOMAIN ur THEN ur[u] ELSE <<>>
        at == {i \in 1..Len(old) : old[i][1] = a}
        new == IF at = {} THEN Append(old, <<a, v>>)
               ELSE [i \in 1..Len(old) |-> IF i \in at THEN <<a, v>> ELSE old[i]]
    IN [x \in DOMAIN ur \cup {u} |-> IF x = u THEN new ELSE ur[x]]

\* hybrid.py:71-76: the table is added to, never cleared
RECURSIVE StoreUserRatings(_, _)
StoreUserRatings(ur, rs) ==
    IF rs = <<>> THEN ur
    ELSE StoreUserRatings(IF Head(rs).rating > 0
                          THEN SetUserRating(ur, Head(rs).user_id, Head(rs).anime_id, Head(rs).rating)
                          ELSE ur,
                          Tail(rs))

\* hybrid.py:53-96.  Each sub-model attribute is rebound to a new instance
\* before that instance is fitted; a fit that raises ends the call there.
HybridFit(s, anime_data, rs) ==
    LET s1 == [s EXCEPT !.user_ratings = StoreUserRatings(s.user_ratings, rs)]
        c == ContentFit(ContentNew, anime_data)
        i == ItemFit(ItemNew(ItemDefaultKNeighbors, ItemDefaultPopularityWeight), rs)
        u == UserFit(UserNew(UserDefaultKNeighbors), rs)
        s2 == [s1 EXCEPT !.content_model = c.self]
        s3 == [s2 EXCEPT !.item_cf_model = i.self]
        s4 == [s3 EXCEPT !.user_cf_model = u.self]
    IN IF c.raised THEN [raised |-> TRUE, self |-> s2]
       ELSE IF i.raised THEN [raised |-> TRUE, self |-> s3]
       ELSE IF u.raised THEN [raised |-> TRUE, self |-> s4]
       ELSE [raised |-> FALSE, self |-> [s4 EXCEPT !.is_fitted = TRUE]]

\* The keys of the user's dict, in insertion order (empty for an unknown user).
RatedBy(s, user_id) ==
    IF user_id \in DOMAIN s.user_ratings
    THEN [i \in 1..Len(s.user_ratings[user_id]) |-> s.user_ratings[user_id][i][1]]
    ELSE <<>>

\* hybrid.py:117-120
LikedAnime(s, user_id) ==
    LET d == s.user_ratings[user_id]
        liked == SelectSeq(d, LAMBDA e : e[2] >= LikedThreshold)
    IN [i \in 1..Len(liked) |-> liked[i][1]]

\* A sub-model call hybrid makes: what the sub-model does, or, for a
\* sub-model in faults, an exception raised out of the call (the case the
\* except clauses of hybrid.py:134, 144, 178, 187 are written for).
Skipped == [status |-> "skipped", value |-> <<>>]
SubCall(name, faults, outcomes) ==
    IF name \in faults THEN {Raise("Exception")} ELSE outcomes

\* hybrid.py:124, 132, 142 with 125, 133, 143: the <<anime_id, score>>
\* pairs one list adds, score = weight * (1 - i / len(recs)), i from 0
RankScores(recs, weight) ==
    [i \in 1..Len(recs) |->
        <<recs[i], RatMul(weight, Rat(Len(recs) - (i - 1), Len(recs)))>>]

RECURSIVE InsertDescRat(_, _)
InsertDescRat(sorted, x) ==
    IF sorted = <<>> THEN <<x>>
    ELSE IF ~RatLess(Head(sorted)[1], x[1])
         THEN <<Head(sorted)>> \o InsertDescRat(Tail(sorted), x)
         ELSE <<x>> \o sorted
\* sorted(..., key=score, reverse=True) of <<score, payload>> pairs, stable
RECURSIVE SortedDescRat(_)
SortedDescRat(s) ==
    IF s = <<>> THEN <<>>
    ELSE InsertDescRat(SortedDescRat(SubSeq(s, 1, Len(s) - 1)), s[Len(s)])

\* The total score of an id over the additions adds.
RECURSIVE ScoreOf(_, _)
ScoreOf(adds, a) ==
    IF adds = <<>> THEN <<0, 1>>
    ELSE IF Head(adds)[1] = a THEN RatAdd(Head(adds)[2], ScoreOf(Tail(adds), a))
         ELSE ScoreOf(Tail(adds), a)

\* The merge without the already-rated filter of hybrid.py:148-149.
HybridCombine_Unfiltered(s, user_id, n, content_recs, item_recs, user_recs) ==
    LET adds == RankScores(content_recs, s.content_weight)
                \o RankScores(item_recs, s.item_cf_weight)
                \o RankScores(user_recs, s.user_cf_weight)
        keys == FirstSeen([i \in 1..Len(adds) |-> adds[i][1]], {})
        sorted_recs == SortedDescRat([i \in 1..Len(keys) |-> <<ScoreOf(adds, keys[i]), keys[i]>>])
    IN [i \in 1..Min(n, Len(sorted_recs)) |-> sorted_recs[i][2]]

\* hybrid.py:113-154 after the sub-model calls: merge, filter, sort, cut
HybridCombine(s, user_id, n, content_recs, item_recs, user_recs) ==
    LET adds == RankScores(content_recs, s.content_weight)
                \o RankScores(item_recs, s.item_cf_weight)
                \o RankScores(user_recs, s.user_cf_weight)
        keys == FirstSeen([i \in 1..Len(adds) |-> adds[i][1]], {})
        rated == Range(RatedBy(s, user_id))
        kept == SelectSeq(keys, LAMBDA a : a \notin rated)
        sorted_recs == SortedDescRat([i \in 1..Len(kept) |-> <<ScoreOf(adds, kept[i]), kept[i]>>])
    IN [i \in 1..Min(n, Len(sorted_recs)) |-> sorted_recs[i][2]]

\* hybrid.py:116-122: the content call is made for a user of the table with
\* at least one liked title, and it is outside every try block
HybridContentCall(s, user_id, n, faults) ==
    IF s.content_model # None /\ user_id \in DOMAIN s.user_ratings
       /\ LikedAnime(s, user_id) # <<>>
    THEN SubCall("content", faults,
                 ContentPredict(s.content_model, user_id, n * 2, LikedAnime(s, user_id)))
    ELSE {Skipped}

\* hybrid.py:128-130 and 138-140
HybridItemCall(s, user_id, n, faults) ==
    IF s.item_cf_model # None
    THEN SubCall("item", faults, ItemPredict(s.item_cf_model, user_id, n * 2))
    ELSE {Skipped}
HybridUserCall(s, user_id, n, faults) ==
    IF s.user_cf_model # None
    THEN SubCall("user", faults, UserPredict(s.user_cf_model, user_id, n * 2))
    ELSE {Skipped}

\* The list a sub-model call contributes: nothing when it raised inside a
\* try block or was not made.
ListOf(o) == IF o.status = "return" THEN o.value ELSE <<>>

\* hybrid.py:113-154 for the sub-model outcomes c, i, u.  An exception of
\* the content call leaves predict at line 122.
HybridPredictOutcome(s, user_id, n, c, i, u) ==
    IF c.status = "raise"
    THEN [status |-> "raise", value |-> c.value, parts |-> <<c, Skipped, Skipped>>]
    ELSE [status |-> "return",
          value |-> HybridCombine(s, user_id, n, ListOf(c), ListOf(i), ListOf(u)),
          parts |-> <<c, i, u>>]

\* predict without the is_fitted test of hybrid.py:109-110.
HybridPredict_Unchecked(s, user_id, n, faults) ==
    {HybridPredictOutcome(s, user_id, n, c, i, u) :
        c \in HybridContentCall(s, user_id, n, faults),
        i \in HybridItemCall(s, user_id, n, faults),
        u \in HybridUserCall(s, user_id, n, faults)}

\* hybrid.py:98-154: the outcomes predict(user_id, n) can have
HybridPredict(s, user_id, n, faults) ==
    IF ~s.is_fitted
    THEN {[status |-> "raise", value |-> "RuntimeError", parts |-> <<Skipped, Skipped, Skipped>>]}
    ELSE {HybridPredictOutcome(s, user_id, n, c, i, u) :
             c \in HybridContentCall(s, user_id, n, faults),
             i \in HybridItemCall(s, user_id, n, faults),
             u \in HybridUserCall(s, user_id, n, faults)}

RatDiv(a, b) == Rat(a[1] * b[2], a[2] * b[1])

\* hybrid.py:190-195 for the sub-model outcomes c, i, u: the predictions
\* and weights collected, their weighted average
HybridRatingOutcome(s, c, i, u) ==
    LET parts == <<c, i, u>>
        ws == <<s.content_weight, s.item_cf_weight, s.user_cf_weight>>
        w(k) == IF parts[k].status = "return" THEN ws[k] ELSE <<0, 1>>
        pw(k) == IF parts[k].status = "return" THEN RatMul(<<parts[k].value, 1>>, ws[k])
                 ELSE <<0, 1>>
        total_weight == RatAdd(RatAdd(w(1), w(2)), w(3))
        weighted == RatAdd(RatAdd(pw(1), pw(2)), pw(3))
    IN IF c.status = "raise"
       THEN [status |-> "raise", value |-> c.value, parts |-> <<c, Skipped, Skipped>>]
       ELSE IF \A k \in 1..3 : parts[k].status # "return"
       THEN [status |-> "return", value |-> 5 * FP, parts |-> parts]
       ELSE IF total_weight[1] = 0
       THEN [status |-> "raise", value |-> "ZeroDivisionError", parts |-> parts]
       ELSE [status |-> "return", value |-> RatFloor(RatDiv(weighted, total_weight)),
             parts |-> parts]

\* hybrid.py:156-195: the outcomes predict_rating(user_id, anime_id) can have
HybridPredictRating(s, user_id, anime_id, faults) ==
    IF ~s.is_fitted
    THEN {[status |-> "return", value |-> 5 * FP, parts |-> <<Skipped, Skipped, Skipped>>]}
    ELSE {HybridRatingOutcome(s, c, i, u) :
             c \in IF s.content_model # None
                   THEN SubCall("content", faults,
                                {Return(ContentPredictRating(s.content_model, user_id, anime_id))})
                   ELSE {Skipped},
             i \in IF s.item_cf_model # None
                   THEN SubCall("item", faults,
                                {Return(ItemPredictRating(s.item_cf_model, user_id, anime_id))})
                   ELSE {Skipped},
             u \in IF s.user_cf_model # None
                   THEN SubCall("user", faults,
                                {Return(v) : v \in UserPredictRating(s.user_cf_model, user_id, anime_id)})
                   ELSE {Skipped}}

-----------------------------------------------------------------------------
(* One recommender instance: construction, then fit / predict /            *)
(* predict_rating calls in any order                                       *)

MaxFits == 2
MaxN == 2

Ev(u, a, r) == [user_id |-> u, anime_id |-> a, rating |-> r]
Anime(a, g, r) == [anime_id |-> a, genre |-> g, rating |-> r]

\* Rating lists.  RatingsUnrated has a user and a title known by a -1
\* (watched, unrated) event only; RatingsRepeated a repeated (user, title)
\* pair; RatingsTied two neighbours at equal similarity; RatingsWide two
\* candidates for user 1 and a title rated by a dissimilar user only.
\* RatingsSparse gives user 1 two rated titles similar to title 4 and one
\* that nobody rated together with it.
RatingsEmpty == <<>>
RatingsThree == <<Ev(1, 1, 8), Ev(1, 2, 3), Ev(2, 1, 8), Ev(2, 3, 8), Ev(3, 2, 8), Ev(3, 3, 3)>>
RatingsUnrated == <<Ev(1, 1, 8), Ev(2, 1, 3), Ev(2, 2, 8), Ev(3, 4, -1)>>
RatingsRepeated == <<Ev(1, 1, 8), Ev(1, 1, 3), Ev(2, 1, 8), Ev(2, 2, 8)>>
RatingsOnlyUnrated == <<Ev(2, 2, -1)>>
RatingsTied == <<Ev(1, 1, 8), Ev(2, 1, 8), Ev(2, 2, 8), Ev(3, 1, 8), Ev(3, 3, 8)>>
RatingsSingle == <<Ev(1, 1, 8)>>
RatingsOther == <<Ev(2, 3, 8), Ev(2, 4, 3), Ev(3, 3, 8), Ev(3, 1, 8)>>
RatingsWide == <<Ev(1, 1, 8), Ev(2, 1, 8), Ev(2, 2, 6), Ev(2, 3, 3), Ev(3, 4, 9)>>
RatingsSparse ==
    <<Ev(1, 1, 8), Ev(1, 2, 3), Ev(1, 3, 9), Ev(2, 1, 8), Ev(2, 2, 6), Ev(2, 4, 7)>>
RatingsPopular == <<Ev(1, 1, 8), Ev(2, 1, 8), Ev(2, 2, 1), Ev(2, 3, 9), Ev(3, 2, 1)>>
RatingLists ==
    {RatingsEmpty, RatingsThree, RatingsUnrated, RatingsRepeated, RatingsOnlyUnrated,
     RatingsTied, RatingsSingle, RatingsOther, RatingsWide, RatingsSparse,
     RatingsPopular}

\* Catalogs.  CatalogGenreless has a title without genres; CatalogTwins two
\* titles with the same genres, ids out of order, a title without rating.
CatalogEmpty == <<>>
CatalogGenreless ==
    <<Anime(1, {"action", "drama"}, 8 * FP), Anime(2, {"action"}, 6 * FP + 500),
      Anime(3, {}, 0)>>
CatalogTwins ==
    <<Anime(2, {"action", "drama"}, 7 * FP + 500), Anime(1, {"action", "drama"}, 9 * FP),
      [anime_id |-> 3, genre |-> {"drama"}], Anime(4, {"action"}, 6 * FP)>>
Catalogs == {CatalogEmpty, CatalogGenreless, CatalogTwins}

\* The (catalog, ratings) pairs a hybrid instance is fitted on.
HybridFitInputs ==
    { <<CatalogGenreless, RatingsThree>>, <<CatalogGenreless, RatingsUnrated>>,
      <<CatalogTwins, RatingsRepeated>>, <<CatalogTwins, RatingsTied>>,
      <<CatalogTwins, RatingsOther>>, <<CatalogTwins, RatingsThree>>,
      <<CatalogEmpty, RatingsThree>>,
      <<CatalogGenreless, RatingsEmpty>> }

QueryUsers == {1, 2, 3, 9}
QueryAnime == {1, 2, 3, 4, 9}
LikedLists == {None, <<1>>, <<2, 1>>, <<3, 9>>, <<3>>}
SubModels == {"content", "item", "user"}

ItemKChoices == {1, 2, ItemDefaultKNeighbors}
ItemPopularityChoices == {0, ItemDefaultPopularityWeight}
UserKChoices == {1, UserDefaultKNeighbors}
\* the defaults 0.3, 0.35, 0.35 and a hybrid without content weight
HybridWeightChoices == {<<6, 7, 7>>, <<0, 10, 10>>}

NoParts == <<Skipped, Skipped, Skipped>>
NoCall ==
    [op |-> "none", user_id |-> 0, n |-> 0, anime_id |-> 0, liked |-> None,
     faults |-> {}, status |-> "none", value |-> <<>>, parts |-> NoParts]
Call(op, user_id, n, anime_id, liked, faults, o, parts) ==
    [op |-> op, user_id |-> user_id, n |-> n, anime_id |-> anime_id, liked |-> liked,
     faults |-> faults, status |-> o.status, value |-> o.value, parts |-> parts]

\* The instance as its constructor leaves it.
ModelInit ==
    /\ kind \in {"item", "user", "content", "hybrid"}
    /\ self \in CASE kind = "item" ->
                       {ItemNew(k, pw) : k \in ItemKChoices, pw \in ItemPopularityChoices}
                  [] kind = "user" -> {UserNew(k) : k \in UserKChoices}
                  [] kind = "content" -> {ContentNew}
                  [] kind = "hybrid" -> {HybridNew(w) : w \in HybridWeightChoices}
    /\ nfits = 0
    /\ fit_ok = <<>>
    /\ fit_args = [anime_data |-> <<>>, ratings |-> <<>>]
    /\ result = NoCall

\* A call is made by a caller that holds no outcome of an earlier call.
CallBy(k) == kind = k /\ result.op = "none"

\* What every fit call does to the bookkeeping variables.
Fitted(r, anime_data, rs) ==
    /\ nfits < MaxFits
    /\ self' = r.self
    /\ nfits' = nfits + 1
    /\ fit_ok' = Append(fit_ok, ~r.raised)
    /\ fit_args' = [anime_data |-> anime_data, ratings |-> rs]
    /\ result' = NoCall
    /\ UNCHANGED kind

\* What every predict / predict_rating call leaves alone.
Queried == UNCHANGED <<kind, self, nfits, fit_ok, fit_args>>

\* The caller takes the outcome of its call; it can then make the next one.
ReturnToCaller ==
    /\ result.op # "none"
    /\ result' = NoCall
    /\ UNCHANGED <<kind, self, nfits, fit_ok, fit_args>>

ItemBased_fit ==
    /\ CallBy("item")
    /\ \E rs \in RatingLists : Fitted(ItemFit(self, rs), <<>>, rs)

ItemBased_predict ==
    /\ CallBy("item")
    /\ \E user_id \in QueryUsers, n \in 1..MaxN :
        \E o \in ItemPredict(self, user_id, n) :
            result' = Call("predict", user_id, n, 0, None, {}, o, NoParts)
    /\ Queried

ItemBased_predict_rating ==
    /\ CallBy("item")
    /\ \E user_id \in QueryUsers, anime_id \in QueryAnime :
        result' = Call("predict_rating", user_id, 0, anime_id, None, {},
                       Return(ItemPredictRating(self, user_id, anime_id)), NoParts)
    /\ Queried

UserBased_fit ==
    /\ CallBy("user")
    /\ \E rs \in RatingLists : Fitted(UserFit(self, rs), <<>>, rs)

UserBased_predict ==
    /\ CallBy("user")
    /\ \E user_id \in QueryUsers, n \in 1..MaxN :
        \E o \in UserPredict(self, user_id, n) :
            result' = Call("predict", user_id, n, 0, None, {}, o, NoParts)
    /\ Queried

UserBased_predict_rating ==
    /\ CallBy("user")
    /\ \E user_id \in QueryUsers, anime_id \in QueryAnime :
        \E v \in UserPredictRating(self, user_id, anime_id) :
            result' = Call("predict_rating", user_id, 0, anime_id, None, {}, Return(v), NoParts)
    /\ Queried

ContentBased_fit ==
    /\ CallBy("content")
    /\ \E anime_data \in Catalogs : Fitted(ContentFit(self, anime_data), anime_data, <<>>)

ContentBased_predict ==
    /\ CallBy("content")
    /\ \E user_id \in QueryUsers, n \in 1..MaxN, liked \in LikedLists :
        \E o \in ContentPredict(self, user_id, n, liked) :
            result' = Call("predict", user_id, n, 0, liked, {}, o, NoParts)
    /\ Queried

ContentBased_predict_rating ==
    /\ CallBy("content")
    /\ \E user_id \in QueryUsers, anime_id \in QueryAnime :
        result' = Call("predict_rating", user_id, 0, anime_id, None, {},
                       Return(ContentPredictRating(self, user_id, anime_id)), NoParts)
    /\ Queried

ContentBased_get_similar_anime ==
    /\ CallBy("content")
    /\ \E anime_id \in QueryAnime, n \in 1..MaxN :
        \E o \in ContentGetSimilarAnime(self, anime_id, n) :
            result' = Call("get_similar_anime", 0, n, anime_id, None, {}, o, NoParts)
    /\ Queried

Hybrid_fit ==
    /\ CallBy("hybrid")
    /\ \E in \in HybridFitInputs : Fitted(HybridFit(self, in[1], in[2]), in[1], in[2])

\* predict with line 148 written as self.user_ratings.setdefault(user_id, {}):
\* the lookup of an unknown user adds an empty entry to the table.
Hybrid_predict_Inserting ==
    /\ CallBy("hybrid")
    /\ \E user_id \in QueryUsers, n \in 1..MaxN, faults \in SUBSET SubModels :
        \E o \in HybridPredict(self, user_id, n, faults) :
            /\ result' = Call("predict", user_id, n, 0, None, faults, o, o.parts)
            /\ self' = IF o.status = "return" /\ user_id \notin DOMAIN self.user_ratings
                       THEN [self EXCEPT !.user_ratings =
                                [x \in DOMAIN self.user_ratings \cup {user_id} |->
                                    IF x = user_id THEN <<>> ELSE self.user_ratings[x]]]
                       ELSE self
    /\ UNCHANGED <<kind, nfits, fit_ok, fit_args>>

Hybrid_predict ==
    /\ CallBy("hybrid")
    /\ \E user_id \in QueryUsers, n \in 1..MaxN, faults \in SUBSET SubModels :
        \E o \in HybridPredict(self, user_id, n, faults) :
            result' = Call("predict", user_id, n, 0, None, faults, o, o.parts)
    /\ Queried

Hybrid_predict_rating ==
    /\ CallBy("hybrid")
    /\ \E user_id \in QueryUsers, anime_id \in QueryAnime, faults \in SUBSET SubModels :
        \E o \in HybridPredictRating(self, user_id, anime_id, faults) :
            result' = Call("predict_rating", user_id, 0, anime_id, None, faults, o, o.parts)
    /\ Queried

ModelsNext ==
    \/ ItemBased_fit /\ UNCHANGED <<splitVars, ctorVars, evaluationVars>>
    \/ ItemBased_predict /\ UNCHANGED <<splitVars, ctorVars, evaluationVars>>
    \/ ItemBased_predict_rating /\ UNCHANGED <<splitVars, ctorVars, evaluationVars>>
    \/ UserBased_fit /\ UNCHANGED <<splitVars, ctorVars, evaluationVars>>
    \/ UserBased_predict /\ UNCHANGED <<splitVars, ctorVars, evaluationVars>>
    \/ UserBased_predict_rating /\ UNCHANGED <<splitVars, ctorVars, evaluationVars>>
    \/ ContentBased_fit /\ UNCHANGED <<splitVars, ctorVars, evaluationVars>>
    \/ ContentBased_predict /\ UNCHANGED <<splitVars, ctorVars, evaluationVars>>
    \/ ContentBased_predict_rating /\ UNCHANGED <<splitVars, ctorVars, evaluationVars>>
    \/ ContentBased_get_similar_anime /\ UNCHANGED <<splitVars, ctorVars, evaluationVars>>
    \/ Hybrid_fit /\ UNCHANGED <<splitVars, ctorVars, evaluationVars>>
    \/ Hybrid_predict /\ UNCHANGED <<splitVars, ctorVars, evaluationVars>>
    \/ Hybrid_predict_rating /\ UNCHANGED <<splitVars, ctorVars, evaluationVars>>
    \/ ReturnToCaller /\ UNCHANGED <<splitVars, ctorVars, evaluationVars>>

InitModels == ModelInit /\ SplitIdle /\ CtorIdle /\ EvaluationIdle

SpecModels == InitModels /\ [][ModelsNext]_vars

-----------------------------------------------------------------------------
(* Properties of the recommender instance                                  *)

IsQuery(r) == r.op \in {"predict", "predict_rating"}

\* C1: a predict or predict_rating call on a fitted recommender of any of
\* the four classes leaves every attribute of the instance (rating matrix,
\* similarity matrix, means, id mappings, sub-models, Hybrid's per-user
\* rating table) as it was before the call.
C1_QueriesKeepFittedState ==
    [][(self.is_fitted /\ IsQuery(result')) => self' = self]_vars

\* A fitted hybrid has answered predict for a user its table does not hold.
C1_Witness ==
    /\ kind = "hybrid"
    /\ self.is_fitted
    /\ result.op = "predict"
    /\ result.status = "return"
    /\ result.user_id \notin DOMAIN self.user_ratings

\* C5 as stated: before fit has been called, predict and predict_rating
\* both end in the not-fitted error and return nothing.
C5_UnfittedCallsRaise ==
    (nfits = 0 /\ IsQuery(result)) =>
        (result.status = "raise" /\ result.value = "RuntimeError")

\* C5 as the code has it: before fit has been called, predict ends in the
\* not-fitted RuntimeError, and predict_rating returns 5.0 without raising.
C5_UnfittedPredictRaisesRatingDefaults ==
    (nfits = 0 /\ IsQuery(result)) =>
        /\ result.op = "predict" =>
              (result.status = "raise" /\ result.value = "RuntimeError")
        /\ result.op = "predict_rating" =>
              (result.status = "return" /\ result.value = 5 * FP)

\* predict_rating has been called on a hybrid that was never fitted.
C5_Witness ==
    /\ kind = "hybrid"
    /\ nfits = 0
    /\ result.op = "predict_rating"
    /\ result.status = "return"

\* The ids a fitted ItemCF / UserCF instance knows, and its mean vector.
KnownUser == result.user_id \in Range(self.user_id_to_idx)
KnownAnime == result.anime_id \in Range(self.anime_id_to_idx)
OwnMeans == IF kind = "item" THEN self.item_means ELSE self.user_means
UnknownEntityCall ==
    /\ kind \in {"item", "user"}
    /\ self.is_fitted
    /\ \/ result.op = "predict" /\ ~KnownUser
       \/ result.op = "predict_rating" /\ (~KnownUser \/ ~KnownAnime)

\* C6 as stated: on a fitted ItemCF or UserCF model, predict for an unknown
\* user returns the empty list; predict_rating with an unknown user or item
\* returns without raising the mean over the known axis when one of the two
\* ids is known, and 5.0 when neither is known.
C6_UnknownEntityDefaults ==
    UnknownEntityCall =>
        /\ result.status = "return"
        /\ result.op = "predict" => result.value = <<>>
        /\ (result.op = "predict_rating" /\ (KnownUser \/ KnownAnime) /\ Len(OwnMeans) > 0) =>
              result.value = SumSeq(OwnMeans) \div Len(OwnMeans)
        /\ (result.op = "predict_rating" /\ ~KnownUser /\ ~KnownAnime) =>
              result.value = 5 * FP

\* C6 as the code has it: predict for an unknown user returns the empty
\* list; predict_rating with an unknown user or item returns without raising
\* the mean of the model's own mean vector (per-item means for ItemCF,
\* per-user means for UserCF), also when neither id is known, and 5.0 only
\* when that vector is empty.
C6_UnknownEntityOwnMean ==
    UnknownEntityCall =>
        /\ result.status = "return"
        /\ result.op = "predict" => result.value = <<>>
        /\ result.op = "predict_rating" =>
              result.value = IF Len(OwnMeans) > 0
                             THEN SumSeq(OwnMeans) \div Len(OwnMeans)
                             ELSE 5 * FP

\* predict_rating with neither id known has returned the mean of a mean
\* vector that holds a zero entry.
C6_Witness ==
    /\ UnknownEntityCall
    /\ result.op = "predict_rating"
    /\ ~KnownUser /\ ~KnownAnime
    /\ \E i \in 1..Len(OwnMeans) : OwnMeans[i] = 0
    /\ result.value # 5 * FP
    /\ result.value > 0

\* A new instance built with the constructor arguments of the instance at
\* hand and fitted once, on the arguments of the last fit call.
FreshlyFitted ==
    CASE kind = "item" ->
            ItemFit(ItemNew(self.k_neighbors, self.popularity_weight), fit_args.ratings).self
      [] kind = "user" -> UserFit(UserNew(self.k_neighbors), fit_args.ratings).self
      [] kind = "content" -> ContentFit(ContentNew, fit_args.anime_data).self
      [] kind = "hybrid" ->
            HybridFit([self EXCEPT !.content_model = None, !.item_cf_model = None,
                                   !.user_cf_model = None, !.user_ratings = <<>>,
                                   !.is_fitted = FALSE],
                      fit_args.anime_data, fit_args.ratings).self

\* C7: after a fit call that returned, followed by a second fit call that
\* returned, the attributes of the instance (mappings, rating matrix, means,
\* similarity, Hybrid's per-user rating table) equal those of a new
\* instance fitted on the second call's data alone.
C7_RefitIsFresh ==
    (nfits >= 2 /\ fit_ok[nfits - 1] /\ fit_ok[nfits]) => self = FreshlyFitted

\* The ids the user has a positive rating for in the data of the last fit.
RatedInFitData(user_id) ==
    {fit_args.ratings[i].anime_id : i \in
        {j \in 1..Len(fit_args.ratings) :
            fit_args.ratings[j].user_id = user_id /\ fit_args.ratings[j].rating > 0}}

\* The lists the three sub-models contributed to the outcome r, and the
\* score hybrid.py:124-143 accumulates for the id a from them.
Contributed(r) == [k \in 1..3 |-> IF r.parts[k].status = "return" THEN r.parts[k].value ELSE <<>>]
WeightsOf(s) == <<s.content_weight, s.item_cf_weight, s.user_cf_weight>>
ShareOf(list, weight, a) ==
    IF a \in Range(list)
    THEN <<weight[1] * (Len(list) - IndexOf(list, a) + 1), weight[2] * Len(list)>>
    ELSE <<0, 1>>
Accumulated(r, s, a) ==
    RatAdd(RatAdd(ShareOf(Contributed(r)[1], WeightsOf(s)[1], a),
                  ShareOf(Contributed(r)[2], WeightsOf(s)[2], a)),
           ShareOf(Contributed(r)[3], WeightsOf(s)[3], a))
FirstInserted(r, a) ==
    IndexOf(Contributed(r)[1] \o Contributed(r)[2] \o Contributed(r)[3], a)

\* C8: a list Hybrid.predict(user, n) returns has at most n ids, all of them
\* candidates of some sub-model, none of them rated positively by the user
\* in the fit data, in descending order of accumulated score, equal scores
\* in order of first insertion (content, then item-CF, then user-CF).
C8_HybridPredictShape ==
    (kind = "hybrid" /\ result.op = "predict" /\ result.status = "return") =>
        LET v == result.value IN
        /\ Len(v) <= result.n
        /\ \A i \in 1..Len(v) :
            /\ FirstInserted(result, v[i]) > 0
            /\ v[i] \notin RatedInFitData(result.user_id)
        /\ \A i, j \in 1..Len(v) : i < j =>
            /\ ~RatLess(Accumulated(result, self, v[i]), Accumulated(result, self, v[j]))
            /\ Accumulated(result, self, v[i]) = Accumulated(result, self, v[j]) =>
                  FirstInserted(result, v[i]) < FirstInserted(result, v[j])

\* All three sub-models contributed, n ids were returned, two of them with
\* the same positive accumulated score, and an unrated candidate for which
\* n had no room was left out.
C8_Witness ==
    /\ kind = "hybrid" /\ result.op = "predict" /\ result.status = "return"
    /\ \A k \in 1..3 : Contributed(result)[k] # <<>>
    /\ Len(result.value) = result.n
    /\ \E i, j \in 1..Len(result.value) :
          /\ i < j
          /\ Accumulated(result, self, result.value[i]) = Accumulated(result, self, result.value[j])
          /\ Accumulated(result, self, result.value[i])[1] > 0
    /\ \E k \in 1..3 : \E a \in Range(Contributed(result)[k]) :
          a \notin RatedInFitData(result.user_id) /\ a \notin Range(result.value)

\* C9: Hybrid.predict on a fitted model returns a list whichever sub-model
\* raises or returns nothing: the list merged from the contributions of the
\* sub-models that did return.  Stated for the exceptions the sub-models
\* raise themselves (faults = {}).
C9_SubModelFailureIsolated ==
    (kind = "hybrid" /\ self.is_fitted /\ result.op = "predict" /\ result.faults = {}) =>
        /\ result.status = "return"
        /\ \A i \in 1..Len(result.value) : FirstInserted(result, result.value[i]) > 0

\* C10: Hybrid.predict_rating on a fitted model returns, whichever
\* sub-models fail, the weighted average of the predictions of those that
\* did not fail over the sum of their weights, and 5.0 when all failed.
C10_FailedSubModelsDropped ==
    (kind = "hybrid" /\ self.is_fitted /\ result.op = "predict_rating") =>
        LET got == {k \in 1..3 : result.parts[k].status = "return"}
            wsum == SumOver(got, [k \in 1..3 |-> WeightsOf(self)[k][1]])
            psum == SumOver(got, [k \in 1..3 |-> result.parts[k].value * WeightsOf(self)[k][1]])
        IN /\ result.status = "return"
           /\ got = {} => result.value = 5 * FP
           /\ (got # {} /\ wsum # 0) => result.value = psum \div wsum

\* C11: no operation of the core divides by zero; in particular the Hybrid
\* construction ends, for any three weights, without a ZeroDivisionError
\* (the only exception NormalizeWeights can raise).
C11_NoDivisionByZero == ctor_pc # "raised"

\* The rating list without its rating -1 events: the list every list that
\* differs from rs in such events only has in common with it.
RatedOnly(rs) == FilterSeq(rs, {e \in Range(rs) : e.rating > 0})

\* A new ItemCF / UserCF instance with the parameters of self, fitted on list rs.
FitOn(rs) ==
    IF kind = "item"
    THEN ItemFit(ItemNew(self.k_neighbors, self.popularity_weight), rs)
    ELSE UserFit(UserNew(self.k_neighbors), rs)

\* The outcomes the call recorded in result can have on instance s.
OutcomesOn(s) ==
    CASE kind = "item" /\ result.op = "predict" ->
            ItemPredict(s, result.user_id, result.n)
      [] kind = "item" /\ result.op = "predict_rating" ->
            {Return(ItemPredictRating(s, result.user_id, result.anime_id))}
      [] kind = "user" /\ result.op = "predict" ->
            UserPredict(s, result.user_id, result.n)
      [] kind = "user" /\ result.op = "predict_rating" ->
            {Return(v) : v \in UserPredictRating(s, result.user_id, result.anime_id)}

\* A query on an ItemCF / UserCF instance whose last fit returned, on a list
\* that still fits once its rating -1 events are taken out.
QueryAfterFit ==
    /\ kind \in {"item", "user"}
    /\ IsQuery(result)
    /\ nfits > 0
    /\ fit_ok[nfits]
    /\ ~FitOn(RatedOnly(fit_args.ratings)).raised

\* C12: events with rating -1 have no influence on inference: every predict
\* list and predict_rating value of ItemCF / UserCF fitted on a rating list
\* is the one the same query has after a fit on the list without its
\* rating -1 events, unknown-entity fallbacks included.
C12_UnratedEventsHaveNoInfluence ==
    QueryAfterFit =>
        [status |-> result.status, value |-> result.value]
            \in OutcomesOn(FitOn(RatedOnly(fit_args.ratings)).self)

\* The positions in rs of the rated events of the pair (user_id, anime_id).
EventsOfPair(rs, user_id, anime_id) ==
    {i \in 1..Len(rs) : rs[i].user_id = user_id /\ rs[i].anime_id = anime_id
                        /\ rs[i].rating > 0}

\* C13: after ItemCF.fit or UserCF.fit on any list of rating events, lists
\* with several events for one (user, item) pair included, every non-zero
\* cell of the preference matrix holds a rating in [1,10], and the cell of
\* a repeated pair holds the rating of the later event.
C13_CellsHoldLatestRating ==
    (kind \in {"item", "user"} /\ nfits > 0) =>
        \A u \in 1..Len(self.user_id_to_idx), a \in 1..Len(self.anime_id_to_idx) :
            LET cell == self.rating_matrix[u][a]
                at == EventsOfPair(fit_args.ratings, self.user_id_to_idx[u],
                                   self.anime_id_to_idx[a])
            IN cell # 0 =>
                /\ cell \in 1..10
                /\ at # {}
                /\ cell = fit_args.ratings[CHOOSE i \in at : \A j \in at : j <= i].rating

\* Item index a has a positive similarity weight for the user at index u:
\* ItemCF, a rated item of u is similar to a; UserCF, a user similar to u
\* rated a.
HasSimilarity(u, a) ==
    LET M == self.rating_matrix
    IN IF kind = "item"
       THEN \E i \in 1..Len(M[u]) : M[u][i] > 0 /\ GetItemSimilarities(self, i)[a] > 0
       ELSE \E v \in 1..Len(M) : M[v][a] > 0 /\ GetUserSimilarities(self, u)[v] > 0

\* A predict call on an ItemCF / UserCF instance that returned a list.
CFPredictReturned ==
    /\ kind \in {"item", "user"}
    /\ result.op = "predict"
    /\ result.status = "return"

\* C14: ItemCF.predict(user, n) and UserCF.predict(user, n) return at most n
\* item ids, all distinct, never an item the user rated positively in the
\* fitted matrix, and never a candidate whose similarity sum is zero.
C14_PredictListShape ==
    CFPredictReturned =>
        LET v == result.value
            ids == self.anime_id_to_idx
            u == IndexOf(self.user_id_to_idx, result.user_id)
        IN /\ Len(v) <= result.n
           /\ \A i, j \in 1..Len(v) : i # j => v[i] # v[j]
           /\ \A i \in 1..Len(v) :
                /\ u # 0
                /\ v[i] \in Range(ids)
                /\ self.rating_matrix[u][IndexOf(ids, v[i])] = 0
                /\ HasSimilarity(u, IndexOf(ids, v[i]))

\* A returned list cut to n, for a user with a rated item, an unrated
\* candidate of positive similarity left out and one of zero similarity.
C14_Witness ==
    /\ CFPredictReturned
    /\ Len(result.value) = result.n
    /\ LET ids == self.anime_id_to_idx
           u == IndexOf(self.user_id_to_idx, result.user_id)
           row == self.rating_matrix[u]
           out == {a \in 1..Len(ids) : row[a] = 0 /\ ids[a] \notin Range(result.value)}
       IN /\ \E a \in 1..Len(ids) : row[a] > 0
          /\ \E a \in out : HasSimilarity(u, a)
          /\ \E a \in out : ~HasSimilarity(u, a)

-----------------------------------------------------------------------------
(* Metric functions   evaluation/metrics.py                                *)
(* A metric value is an exact rational <<num, den>>; the logarithmic       *)
(* discounts of ndcg are integers of thousandths.                          *)

MaxListLen == 3
MaxK == 4
MaxLists == 3

Zero == <<0, 1>>
One == <<1, 1>>

\* 1.0 / np.log2(i + 2) for i = 0, 1, ..., in thousandths; Discount[i + 1]
\* is the discount of position i.
Discount == <<1000, 631, 500, 431, 387, 356, 333, 315, 301, 289>>

\* metrics.py:48-70, with hits counted per position of the prefix.
precision_at_k_PerPosition(recommended, relevant, k) ==
    IF k <= 0 THEN Zero
    ELSE LET top == PyPrefix(recommended, k)
         IN Rat(Cardinality({i \in 1..Len(top) : top[i] \in Range(relevant)}), k)

\* metrics.py:48-70
precision_at_k(recommended, relevant, k) ==
    IF k <= 0 THEN Zero
    ELSE LET recommended_k == Range(PyPrefix(recommended, k))
             relevant_set == Range(relevant)
             hits == Cardinality(recommended_k \cap relevant_set)
         IN IF recommended_k = {} THEN Zero ELSE Rat(hits, k)

\* metrics.py:73-92
recall_at_k(recommended, relevant, k) ==
    IF relevant = <<>> THEN Zero
    ELSE LET recommended_k == Range(PyPrefix(recommended, k))
             relevant_set == Range(relevant)
             hits == Cardinality(recommended_k \cap relevant_set)
         IN Rat(hits, Cardinality(relevant_set))

\* metrics.py:95-113
f1_at_k(recommended, relevant, k) ==
    LET p == precision_at_k(recommended, relevant, k)
        r == recall_at_k(recommended, relevant, k)
    IN IF RatAdd(p, r) = Zero THEN Zero
       ELSE LET s == RatAdd(p, r)
            IN RatMul(RatMul(<<2, 1>>, RatMul(p, r)), Rat(s[2], s[1]))

\* metrics.py:116-147 with ideal_length = k.
ndcg_at_k_IdealOfK(recommended, relevant, k) ==
    IF recommended = <<>> \/ relevant = <<>> THEN Zero
    ELSE LET top == PyPrefix(recommended, k)
             dcg == SumSeq([i \in 1..Len(top) |->
                        IF top[i] \in Range(relevant) THEN Discount[i] ELSE 0])
             idcg == SumSeq([i \in 1..k |-> Discount[i]])
         IN IF idcg = 0 THEN Zero ELSE Rat(dcg, idcg)

\* metrics.py:116-147
ndcg_at_k(recommended, relevant, k) ==
    IF recommended = <<>> \/ relevant = <<>> THEN Zero
    ELSE LET relevant_set == Range(relevant)
             top == PyPrefix(recommended, k)
             dcg == SumSeq([i \in 1..Len(top) |->
                        IF top[i] \in relevant_set THEN Discount[i] ELSE 0])
             ideal_length == Min(k, Len(relevant))
             idcg == SumSeq([i \in 1..ideal_length |-> Discount[i]])
         IN IF idcg = 0 THEN Zero ELSE Rat(dcg, idcg)

\* metrics.py:150-168 over the last list only.
coverage_LastListOnly(recommended_items, all_items) ==
    IF all_items = {} THEN Zero
    ELSE LET last == IF recommended_items = <<>> THEN {}
                     ELSE Range(recommended_items[Len(recommended_items)])
         IN Rat(Cardinality(last) * 100, Cardinality(all_items))

\* metrics.py:150-168
coverage(recommended_items, all_items) ==
    IF all_items = {} THEN Zero
    ELSE LET recommended_set ==
                UNION {Range(recommended_items[i]) : i \in 1..Len(recommended_items)}
         IN Rat(Cardinality(recommended_set) * 100, Cardinality(all_items))

\* Inputs of the metric calls: lists of item ids with repeats, any k.
MetricItems == 1..3
RECURSIVE ListsUpTo(_, _)
ListsUpTo(S, n) ==
    IF n = 0 THEN {<<>>}
    ELSE LET shorter == ListsUpTo(S, n - 1)
         IN shorter \cup {Append(l, x) : l \in shorter, x \in S}
ItemLists == ListsUpTo(MetricItems, MaxListLen)
RankingArgs ==
    [form : {"ranking"}, recommended : ItemLists, relevant : ItemLists, k : (-1)..MaxK,
     recommended_items : {<<>>}, all_items : {{}}]
CoverageArgs ==
    [form : {"coverage"}, recommended : {<<>>}, relevant : {<<>>}, k : {0},
     recommended_items : ListsUpTo(ListsUpTo(MetricItems, 2), MaxLists),
     all_items : {{}, {1, 2}, MetricItems}]

MetricInit ==
    /\ metric_args \in RankingArgs \cup CoverageArgs
    /\ metric_out = [fn |-> "none", value |-> Zero]

\* A call of a ranking metric on the drawn arguments.
Ranked(fn, value) ==
    /\ metric_args.form = "ranking"
    /\ metric_out.fn = "none"
    /\ metric_out' = [fn |-> fn, value |-> value]
    /\ UNCHANGED metric_args

Call_precision_at_k ==
    Ranked("precision_at_k",
           precision_at_k(metric_args.recommended, metric_args.relevant, metric_args.k))

Call_recall_at_k ==
    Ranked("recall_at_k",
           recall_at_k(metric_args.recommended, metric_args.relevant, metric_args.k))

Call_f1_at_k ==
    Ranked("f1_at_k", f1_at_k(metric_args.recommended, metric_args.relevant, metric_args.k))

Call_ndcg_at_k ==
    Ranked("ndcg_at_k",
           ndcg_at_k(metric_args.recommended, metric_args.relevant, metric_args.k))

Call_coverage ==
    /\ metric_args.form = "coverage"
    /\ metric_out.fn = "none"
    /\ metric_out' = [fn |-> "coverage",
                      value |-> coverage(metric_args.recommended_items, metric_args.all_items)]
    /\ UNCHANGED metric_args

MetricsNext ==
    \/ Call_precision_at_k /\ UNCHANGED <<splitVars, ctorVars, modelVars, storeVars, evalVars, rateVars>>
    \/ Call_recall_at_k /\ UNCHANGED <<splitVars, ctorVars, modelVars, storeVars, evalVars, rateVars>>
    \/ Call_f1_at_k /\ UNCHANGED <<splitVars, ctorVars, modelVars, storeVars, evalVars, rateVars>>
    \/ Call_ndcg_at_k /\ UNCHANGED <<splitVars, ctorVars, modelVars, storeVars, evalVars, rateVars>>
    \/ Call_coverage /\ UNCHANGED <<splitVars, ctorVars, modelVars, storeVars, evalVars, rateVars>>

InitMetrics ==
    MetricInit /\ SplitIdle /\ CtorIdle /\ ModelIdle /\ StoreIdle /\ EvalIdle /\ RateIdle

SpecMetrics == InitMetrics /\ [][MetricsNext]_vars

InUnitInterval(v) == v[2] > 0 /\ 0 <= v[1] /\ v[1] <= v[2]

\* C15: precision_at_k(recommended, relevant, k) equals
\* |recommended[:k] /\ relevant| / k (the ids among the first k recommended
\* that are relevant), lies in [0,1] for all inputs, lists with repeated
\* ids included, and is 0.0 when recommended is empty.
C15_PrecisionAtK ==
    metric_out.fn = "precision_at_k" =>
        LET rec == metric_args.recommended
            rel == metric_args.relevant
            hit == {x \in MetricItems :
                       /\ \E i \in 1..Len(rec) : i <= metric_args.k /\ rec[i] = x
                       /\ \E j \in 1..Len(rel) : rel[j] = x}
        IN /\ InUnitInterval(metric_out.value)
           /\ metric_args.k > 0 =>
                metric_out.value[1] * metric_args.k = Cardinality(hit) * metric_out.value[2]
           /\ rec = <<>> => metric_out.value = Zero

\* A repeated relevant id among the first k, and a value strictly inside (0,1).
C15_Witness ==
    /\ metric_out.fn = "precision_at_k"
    /\ metric_out.value # Zero
    /\ metric_out.value # One
    /\ \E i, j \in 1..Len(metric_args.recommended) :
          /\ i < j
          /\ j <= metric_args.k
          /\ metric_args.recommended[i] = metric_args.recommended[j]
          /\ metric_args.recommended[i] \in Range(metric_args.relevant)

\* C16: ndcg_at_k(recommended, relevant, k) is 1.0 whenever
\* recommended[:k] == relevant[:k] and both lists are non-empty, for every
\* k > 0 and every length of relevant.
C16_NdcgOfIdenticalPrefix ==
    (/\ metric_out.fn = "ndcg_at_k"
     /\ metric_args.k > 0
     /\ metric_args.recommended # <<>>
     /\ metric_args.relevant # <<>>
     /\ PyPrefix(metric_args.recommended, metric_args.k)
            = PyPrefix(metric_args.relevant, metric_args.k))
        => metric_out.value = One

\* Identical prefixes with relevant shorter than k.
C16_Witness ==
    /\ metric_out.fn = "ndcg_at_k"
    /\ metric_args.relevant # <<>>
    /\ Len(metric_args.relevant) < metric_args.k
    /\ metric_args.recommended = metric_args.relevant
    /\ metric_out.value = One

\* C17: coverage(recommended_items, all_items) does not decrease when
\* further users' lists are appended to recommended_items with all_items
\* fixed (it is at least the coverage of every prefix of the list of
\* lists), and is 0.0 when all_items is empty.
C17_CoverageMonotone ==
    metric_out.fn = "coverage" =>
        /\ \A n \in 0..Len(metric_args.recommended_items) :
              ~RatLess(metric_out.value,
                       coverage(SubSeq(metric_args.recommended_items, 1, n),
                                metric_args.all_items))
        /\ metric_args.all_items = {} => metric_out.value = Zero

\* An appended list that repeats ids already seen, after one that raised
\* the coverage.
C17_Witness ==
    /\ metric_out.fn = "coverage"
    /\ Len(metric_args.recommended_items) = 3
    /\ LET L == metric_args.recommended_items
           A == metric_args.all_items
       IN /\ RatLess(coverage(SubSeq(L, 1, 1), A), coverage(SubSeq(L, 1, 2), A))
          /\ coverage(SubSeq(L, 1, 2), A) = metric_out.value
          /\ L[3] # <<>>
          /\ Range(L[3]) # Range(L[2])

-----------------------------------------------------------------------------
(* save_metrics_to_mongodb(model_name, metrics, description)               *)
(* train_models.py:198-221.  Evaluation runs call it; the calls of         *)
(* overlapping runs interleave at the awaited update_one.  The collection  *)
(* has no unique index on model_name (data/loader.py creates indexes for   *)
(* the animes, ratings and users collections only), so an upsert is two    *)
(* steps of the server: match the filter, then update the matched          *)
(* document or insert a new one.                                           *)

MaxRuns == 3
Runs == 1..MaxRuns
ModelNames == {"Item-Based Collaborative Filtering", "Hybrid Model"}
MetricKeys == {"rmse", "mae", "precision_k", "recall_k", "f1_k", "ndcg_k"}

\* Metrics dicts of evaluation runs, in ten-thousandths; the last one lacks keys.
MetricsChoices ==
    {[rmse |-> 12500, mae |-> 9800, precision_k |-> 2500, recall_k |-> 5000,
      f1_k |-> 3333, ndcg_k |-> 6309],
     [rmse |-> 0, mae |-> 0, precision_k |-> 0, recall_k |-> 0, f1_k |-> 0, ndcg_k |-> 0],
     [rmse |-> 11000, mae |-> 9000]}

\* dict.get(key, 0)
Get(d, key) == IF key \in DOMAIN d THEN d[key] ELSE 0

\* train_models.py:203-213
MetricsDoc(model_name, metrics, description, now) ==
    [model_name |-> model_name, trained_at |-> now,
     rmse |-> Get(metrics, "rmse"), mae |-> Get(metrics, "mae"),
     precision_k |-> Get(metrics, "precision_k"), recall_k |-> Get(metrics, "recall_k"),
     f1_k |-> Get(metrics, "f1_k"), ndcg_k |-> Get(metrics, "ndcg_k"),
     description |-> description]

NoDoc == MetricsDoc("", <<>>, "", 0)

StoreInit ==
    /\ metrics_col = <<>>
    /\ save_runs = [r \in Runs |-> [pc |-> "idle", doc |-> NoDoc]]
    /\ save_clock = 0
    /\ save_done = <<>>

\* The positions of the documents that match {"model_name": name}.
Matching(col, name) == {i \in 1..Len(col) : col[i].model_name = name}

\* train_models.py:198-213: the run builds its document.
save_metrics_to_mongodb(r) ==
    /\ save_runs[r].pc = "idle"
    /\ \E model_name \in ModelNames, metrics \in MetricsChoices :
        save_runs' = [save_runs EXCEPT ![r] =
            [pc |-> "update_one",
             doc |-> MetricsDoc(model_name, metrics, "description", save_clock + 1)]]
    /\ save_clock' = save_clock + 1
    /\ UNCHANGED <<metrics_col, save_done>>

\* train_models.py:216-220, the filter matches: $set on the first matching
\* document, applied with the match in one step; the call returns.
update_one_Matched(r) ==
    /\ save_runs[r].pc = "update_one"
    /\ Matching(metrics_col, save_runs[r].doc.model_name) # {}
    /\ LET at == Matching(metrics_col, save_runs[r].doc.model_name)
           first == CHOOSE i \in at : \A j \in at : i <= j
       IN metrics_col' = [metrics_col EXCEPT ![first] = save_runs[r].doc]
    /\ save_runs' = [save_runs EXCEPT ![r].pc = "returned"]
    /\ save_done' = Append(save_done, r)
    /\ UNCHANGED save_clock

\* train_models.py:216-220, the filter matches nothing: upsert=True makes
\* the server insert, in a later step.
update_one_Unmatched(r) ==
    /\ save_runs[r].pc = "update_one"
    /\ Matching(metrics_col, save_runs[r].doc.model_name) = {}
    /\ save_runs' = [save_runs EXCEPT ![r].pc = "insert"]
    /\ UNCHANGED <<metrics_col, save_clock, save_done>>

\* The insert of the upsert; the call returns.
update_one_Insert(r) ==
    /\ save_runs[r].pc = "insert"
    /\ metrics_col' = Append(metrics_col, save_runs[r].doc)
    /\ save_runs' = [save_runs EXCEPT ![r].pc = "returned"]
    /\ save_done' = Append(save_done, r)
    /\ UNCHANGED save_clock

StoreNext ==
    \/ \E r \in Runs : save_metrics_to_mongodb(r)
                       /\ UNCHANGED <<splitVars, ctorVars, modelVars, metricVars, evalVars, rateVars>>
    \/ \E r \in Runs : update_one_Matched(r)
                       /\ UNCHANGED <<splitVars, ctorVars, modelVars, metricVars, evalVars, rateVars>>
    \/ \E r \in Runs : update_one_Unmatched(r)
                       /\ UNCHANGED <<splitVars, ctorVars, modelVars, metricVars, evalVars, rateVars>>
    \/ \E r \in Runs : update_one_Insert(r)
                       /\ UNCHANGED <<splitVars, ctorVars, modelVars, metricVars, evalVars, rateVars>>

InitStore ==
    StoreInit /\ SplitIdle /\ CtorIdle /\ ModelIdle /\ MetricIdle /\ EvalIdle /\ RateIdle

SpecMetricsStore == InitStore /\ [][StoreNext]_vars

\* The runs for model name whose save has returned, in order of return.
SavedFor(name) == SelectSeq(save_done, LAMBDA r : save_runs[r].doc.model_name = name)
\* No save for model name is under way.
Quiet(name) ==
    \A r \in Runs : save_runs[r].pc \in {"update_one", "insert"}
                        => save_runs[r].doc.model_name # name

\* C18: after any sequence of evaluation runs that call
\* save_metrics_to_mongodb, sequential or overlapping, the metrics store
\* holds at most one record per model_name, and that record holds the
\* metrics of the last run for that model.
C18_OneRecordPerModel ==
    \A name \in ModelNames :
        LET at == Matching(metrics_col, name)
            saved == SavedFor(name)
        IN /\ Cardinality(at) <= 1
           /\ (saved # <<>> /\ Quiet(name)) =>
                \E i \in at : \A key \in MetricKeys :
                    metrics_col[i][key] = save_runs[saved[Len(saved)]].doc[key]

-----------------------------------------------------------------------------
(* evaluate_model(model, test_ratings, train_ratings, k, threshold)        *)
(* train_models.py:97-195.  The model is the environment of the function:  *)
(* each predict / predict_rating call either raises or returns.  Metric    *)
(* values of the returned record are integers of ten-thousandths           *)
(* (round(x, 4)); rmse is computed to three decimals.                      *)

EvalThreshold == 7
UsersSampleLimit == 1000
RatingsSampleLimit == 5000
E4 == 10 * 10 * 10 * 10

TrainEvents == <<Ev(1, 1, 8), Ev(1, 2, 3), Ev(2, 1, 8)>>
TestTwoRelevant == <<Ev(1, 3, 9), Ev(2, 2, 8), Ev(3, 1, -1)>>
TestNoneRelevant == <<Ev(1, 3, 3), Ev(2, 2, 6)>>
TestNewUser == <<Ev(4, 1, 9), Ev(1, 3, 7)>>
EvalInputs ==
    {<<TrainEvents, TestTwoRelevant>>, <<TrainEvents, TestNoneRelevant>>,
     <<TrainEvents, TestNewUser>>, <<TrainEvents, <<>>>>, <<<<>>, TestTwoRelevant>>}
EvalKChoices == {1, 2}

\* What a predict and a predict_rating call on the model can do.
PredictOutcomes == {Raise("Exception"), Return(<<>>), Return(<<3>>), Return(<<2, 3, 1>>)}
PredictRatingOutcomes == {Raise("Exception"), Return(5 * FP), Return(8 * FP + 500)}

\* round(num / den, 4) in ten-thousandths, halves to even.
RoundE4(v) ==
    LET q == (v[1] * E4) \div v[2]
        rem == (v[1] * E4) % v[2]
    IN IF 2 * rem > v[2] \/ (2 * rem = v[2] /\ q % 2 = 1) THEN q + 1 ELSE q

\* The integer square root of x >= 0, sought between lo and hi.
RECURSIVE SqrtBetween(_, _, _)
SqrtBetween(x, lo, hi) ==
    IF lo >= hi THEN lo
    ELSE LET mid == (lo + hi + 1) \div 2
         IN IF mid * mid <= x THEN SqrtBetween(x, mid, hi) ELSE SqrtBetween(x, lo, mid - 1)

RECURSIVE RatSum(_)
RatSum(s) == IF s = <<>> THEN Zero ELSE RatAdd(Head(s), RatSum(Tail(s)))

\* metrics.py:14-28; a prediction is <<actual, predicted>>, actual a rating
\* and predicted in thousandths.
rmse(predictions) ==
    IF predictions = <<>> THEN 0
    ELSE LET squared_errors == [i \in 1..Len(predictions) |->
                 (predictions[i][1] * FP - predictions[i][2])
                 * (predictions[i][1] * FP - predictions[i][2])]
             mean == SumSeq(squared_errors) \div Len(predictions)
         IN 10 * SqrtBetween(mean, 0, 20 * FP)

\* metrics.py:31-45
mae(predictions) ==
    IF predictions = <<>> THEN 0
    ELSE LET absolute_errors == [i \in 1..Len(predictions) |->
                 Abs(predictions[i][1] * FP - predictions[i][2])]
         IN RoundE4(Rat(SumSeq(absolute_errors), Len(predictions) * FP))

\* train_models.py:119-122: the anime ids of each user's train events
user_train_items(train_ratings) ==
    [u \in {train_ratings[i].user_id : i \in 1..Len(train_ratings)} |->
        {train_ratings[i].anime_id : i \in {j \in 1..Len(train_ratings) :
                                              train_ratings[j].user_id = u}}]

\* train_models.py:124-128: per user, the test items rated >= threshold,
\* in the order of the test events
user_relevant(test_ratings, threshold) ==
    LET rel == SelectSeq(test_ratings, LAMBDA r : r.rating >= threshold)
    IN [u \in {rel[i].user_id : i \in 1..Len(rel)} |->
          LET mine == SelectSeq(rel, LAMBDA r : r.user_id = u)
          IN [i \in 1..Len(mine) |-> mine[i].anime_id]]

\* train_models.py:140-142: the keys of user_relevant in insertion order;
\* random.sample draws UsersSampleLimit of them when there are more.
users_to_evaluate(test_ratings, threshold) ==
    LET rel == SelectSeq(test_ratings, LAMBDA r : r.rating >= threshold)
        keys == FirstSeen([i \in 1..Len(rel) |-> rel[i].user_id], {})
    IN IF Len(keys) > UsersSampleLimit
       THEN {[i \in 1..UsersSampleLimit |-> keys[p[i]]] : p \in Perms(Len(keys))}
       ELSE {keys}

EvalInit ==
    /\ eval_args \in [model_is_content : BOOLEAN, inputs : EvalInputs, k : EvalKChoices,
                      threshold : {EvalThreshold}]
    /\ eval_pc = "users"
    /\ eval_todo \in {[users |-> us, sample |-> {}] :
                        us \in users_to_evaluate(eval_args.inputs[2], eval_args.threshold)}
    /\ eval_acc = [rating_predictions |-> <<>>, all_precisions |-> <<>>,
                   all_recalls |-> <<>>, all_f1s |-> <<>>, all_ndcgs |-> <<>>]
    /\ eval_calls = <<>>
    /\ eval_metrics = <<>>

\* The ranking metrics of one user's list appended to the aggregates
\* (train_models.py:164-169).
WithRanking(acc, recs, relevant, k) ==
    [acc EXCEPT !.all_precisions = Append(@, precision_at_k(recs, relevant, k)),
                !.all_recalls = Append(@, recall_at_k(recs, relevant, k)),
                !.all_f1s = Append(@, f1_at_k(recs, relevant, k)),
                !.all_ndcgs = Append(@, ndcg_at_k(recs, relevant, k))]

\* train_models.py:144-171: one pass of the loop over users_to_evaluate
evaluate_model_user ==
    /\ eval_pc = "users"
    /\ eval_todo.users # <<>>
    /\ LET user_id == Head(eval_todo.users)
           relevant == user_relevant(eval_args.inputs[2], eval_args.threshold)[user_id]
           seen == user_train_items(eval_args.inputs[1])
           liked == IF user_id \in DOMAIN seen THEN seen[user_id] ELSE {}
       IN IF eval_args.model_is_content /\ liked = {}
          THEN UNCHANGED <<eval_acc, eval_calls>>
          ELSE \E o \in PredictOutcomes :
                /\ eval_calls' = Append(eval_calls,
                        [op |-> "predict", user_id |-> user_id, event |-> 0,
                         status |-> o.status, value |-> o.value])
                /\ eval_acc' = IF o.status = "return" /\ o.value # <<>>
                               THEN WithRanking(eval_acc, o.value, relevant, eval_args.k)
                               ELSE eval_acc
    /\ eval_todo' = [eval_todo EXCEPT !.users = Tail(@)]
    /\ UNCHANGED <<eval_args, eval_pc, eval_metrics>>

\* train_models.py:174: test_sample, min(RatingsSampleLimit, len) of the
\* test events, as positions in test_ratings
evaluate_model_sample ==
    /\ eval_pc = "users"
    /\ eval_todo.users = <<>>
    /\ LET all == 1..Len(eval_args.inputs[2])
       IN \E sample \in IF Len(eval_args.inputs[2]) > RatingsSampleLimit
                        THEN {S \in SUBSET all : Cardinality(S) = RatingsSampleLimit}
                        ELSE {all} :
            eval_todo' = [eval_todo EXCEPT !.sample = sample]
    /\ eval_pc' = "ratings"
    /\ UNCHANGED <<eval_args, eval_acc, eval_calls, eval_metrics>>

\* One pass of the loop over test_sample with the try block left out: an
\* exception of predict_rating ends evaluate_model.
evaluate_model_rating_Unguarded ==
    /\ eval_pc = "ratings"
    /\ \E i \in eval_todo.sample, o \in PredictRatingOutcomes :
        LET r == eval_args.inputs[2][i]
        IN /\ eval_calls' = Append(eval_calls,
                    [op |-> "predict_rating", user_id |-> r.user_id, event |-> i,
                     status |-> o.status, value |-> o.value])
           /\ eval_acc' = IF o.status = "return"
                          THEN [eval_acc EXCEPT !.rating_predictions =
                                    Append(@, <<r.rating, o.value>>)]
                          ELSE eval_acc
           /\ eval_pc' = IF o.status = "return" THEN "ratings" ELSE "raised"
           /\ eval_todo' = [eval_todo EXCEPT !.sample = @ \ {i}]
    /\ UNCHANGED <<eval_args, eval_metrics>>

\* train_models.py:175-180: one pass of the loop over test_sample, which is
\* in random order
evaluate_model_rating ==
    /\ eval_pc = "ratings"
    /\ \E i \in eval_todo.sample, o \in PredictRatingOutcomes :
        LET r == eval_args.inputs[2][i]
        IN /\ eval_calls' = Append(eval_calls,
                    [op |-> "predict_rating", user_id |-> r.user_id, event |-> i,
                     status |-> o.status, value |-> o.value])
           /\ eval_acc' = IF o.status = "return"
                          THEN [eval_acc EXCEPT !.rating_predictions =
                                    Append(@, <<r.rating, o.value>>)]
                          ELSE eval_acc
           /\ eval_todo' = [eval_todo EXCEPT !.sample = @ \ {i}]
    /\ UNCHANGED <<eval_args, eval_pc, eval_metrics>>

\* round(sum(values) / len(values), 4) if values else 0.0
MeanE4(values) ==
    IF values = <<>> THEN 0 ELSE RoundE4(RatMul(RatSum(values), <<1, Len(values)>>))

\* train_models.py:182-195
evaluate_model_return ==
    /\ eval_pc = "ratings"
    /\ eval_todo.sample = {}
    /\ eval_metrics' =
        [rmse |-> IF eval_acc.rating_predictions # <<>>
                  THEN rmse(eval_acc.rating_predictions) ELSE 0,
         mae |-> IF eval_acc.rating_predictions # <<>>
                 THEN mae(eval_acc.rating_predictions) ELSE 0,
         precision_k |-> MeanE4(eval_acc.all_precisions),
         recall_k |-> MeanE4(eval_acc.all_recalls),
         f1_k |-> MeanE4(eval_acc.all_f1s),
         ndcg_k |-> MeanE4(eval_acc.all_ndcgs)]
    /\ eval_pc' = "returned"
    /\ UNCHANGED <<eval_args, eval_todo, eval_acc, eval_calls>>

EvaluateNext ==
    \/ evaluate_model_user
       /\ UNCHANGED <<splitVars, ctorVars, modelVars, metricVars, storeVars, rateVars>>
    \/ evaluate_model_sample
       /\ UNCHANGED <<splitVars, ctorVars, modelVars, metricVars, storeVars, rateVars>>
    \/ evaluate_model_rating
       /\ UNCHANGED <<splitVars, ctorVars, modelVars, metricVars, storeVars, rateVars>>
    \/ evaluate_model_return
       /\ UNCHANGED <<splitVars, ctorVars, modelVars, metricVars, storeVars, rateVars>>

InitEvaluate ==
    EvalInit /\ SplitIdle /\ CtorIdle /\ ModelIdle /\ MetricIdle /\ StoreIdle /\ RateIdle

SpecEvaluate == InitEvaluate /\ [][EvaluateNext]_vars

\* The calls made on the model that entered the aggregates: predict calls
\* that returned a non-empty list, predict_rating calls that returned.
RankedCalls ==
    SelectSeq(eval_calls, LAMBDA c : c.op = "predict" /\ c.status = "return" /\ c.value # <<>>)
RatedCalls == SelectSeq(eval_calls, LAMBDA c : c.op = "predict_rating" /\ c.status = "return")
RaisedCalls == SelectSeq(eval_calls, LAMBDA c : c.status = "raise")

\* The mean of a ranking metric over the calls that returned a list.
RankingMean(metric(_, _, _)) ==
    LET relevant == user_relevant(eval_args.inputs[2], eval_args.threshold)
    IN MeanE4([i \in 1..Len(RankedCalls) |->
                  metric(RankedCalls[i].value, relevant[RankedCalls[i].user_id], eval_args.k)])

\* C19: evaluate_model: when predict or predict_rating raises for a sampled
\* user or test event, that user or event is left out of the aggregates and
\* the evaluation goes on with the next one; evaluate_model always returns
\* a metrics record with the six keys rmse, mae, precision_k, recall_k,
\* f1_k, ndcg_k, each 0.0 when nothing was aggregated.
C19_EvaluationSkipsFailures ==
    /\ eval_pc \in {"users", "ratings", "returned"}
    /\ eval_pc = "returned" =>
        LET pairs == [i \in 1..Len(RatedCalls) |->
                        <<eval_args.inputs[2][RatedCalls[i].event].rating, RatedCalls[i].value>>]
            seen == user_train_items(eval_args.inputs[1])
            visited == {eval_calls[i].user_id :
                           i \in {j \in 1..Len(eval_calls) : eval_calls[j].op = "predict"}}
            events == {eval_calls[i].event :
                          i \in {j \in 1..Len(eval_calls) : eval_calls[j].op = "predict_rating"}}
        IN /\ DOMAIN eval_metrics = MetricKeys
           /\ events = 1..Len(eval_args.inputs[2])
           /\ \A u \in DOMAIN user_relevant(eval_args.inputs[2], eval_args.threshold) :
                 u \in visited \/ (eval_args.model_is_content /\ u \notin DOMAIN seen)
           /\ eval_acc.rating_predictions = pairs
           /\ Len(eval_acc.all_precisions) = Len(RankedCalls)
           /\ eval_metrics.rmse = rmse(pairs)
           /\ eval_metrics.mae = mae(pairs)
           /\ eval_metrics.precision_k = RankingMean(precision_at_k)
           /\ eval_metrics.recall_k = RankingMean(recall_at_k)
           /\ eval_metrics.f1_k = RankingMean(f1_at_k)
           /\ eval_metrics.ndcg_k = RankingMean(ndcg_at_k)
           /\ RatedCalls = <<>> => eval_metrics.rmse = 0 /\ eval_metrics.mae = 0
           /\ RankedCalls = <<>> =>
                 /\ eval_metrics.precision_k = 0
                 /\ eval_metrics.recall_k = 0
                 /\ eval_metrics.f1_k = 0
                 /\ eval_metrics.ndcg_k = 0

\* A returned evaluation in which a predict call and a predict_rating call
\* raised, each followed by a call of the same kind that was aggregated.
C19_Witness ==
    /\ eval_pc = "returned"
    /\ \E i, j \in 1..Len(eval_calls) :
          /\ i < j
          /\ eval_calls[i].op = "predict" /\ eval_calls[i].status = "raise"
          /\ eval_calls[j].op = "predict" /\ eval_calls[j].status = "return"
          /\ eval_calls[j].value # <<>>
    /\ \E i, j \in 1..Len(eval_calls) :
          /\ i < j
          /\ eval_calls[i].op = "predict_rating" /\ eval_calls[i].status = "raise"
          /\ eval_calls[j].op = "predict_rating" /\ eval_calls[j].status = "return"
    /\ eval_metrics.precision_k > 0
    /\ eval_metrics.rmse > 0

\* The items the user of the call rated, by matrix index, that have a
\* strictly positive similarity to the item of the call.
PositiveNeighbours ==
    LET row == self.rating_matrix[IndexOf(self.user_id_to_idx, result.user_id)]
        sims == GetItemSimilarities(self, IndexOf(self.anime_id_to_idx, result.anime_id))
    IN {j \in 1..Len(row) : row[j] > 0 /\ sims[j] > 0}

\* The similarity-weighted average of the user's ratings over the items T.
WeightedAverage(T) ==
    LET row == self.rating_matrix[IndexOf(self.user_id_to_idx, result.user_id)]
        sims == GetItemSimilarities(self, IndexOf(self.anime_id_to_idx, result.anime_id))
    IN (SumOver(T, [j \in T |-> sims[j] * row[j]]) * FP) \div SumOver(T, [j \in T |-> sims[j]])

\* An ItemCF predict_rating call for a known user and a known item for
\* which the user has a neighbour.
ItemRatingCall ==
    /\ kind = "item"
    /\ result.op = "predict_rating"
    /\ self.is_fitted
    /\ KnownUser
    /\ KnownAnime
    /\ PositiveNeighbours # {}

\* C20: ItemCF.predict_rating(user, item) for a known user and item is the
\* sum of sim * rating over the sum of sim, taken over the at most k items
\* the user rated that have the highest strictly positive similarity to the
\* item; an item of non-positive similarity is never a neighbour.
C20_ItemRatingIsWeightedAverage ==
    ItemRatingCall =>
        \E T \in SUBSET PositiveNeighbours :
            /\ Cardinality(T) = Min(self.k_neighbors, Cardinality(PositiveNeighbours))
            /\ \A a \in T, b \in PositiveNeighbours \ T :
                  GetItemSimilarities(self, IndexOf(self.anime_id_to_idx, result.anime_id))[a]
                  >= GetItemSimilarities(self, IndexOf(self.anime_id_to_idx, result.anime_id))[b]
            /\ result.value = WeightedAverage(T)

\* More positive neighbours than k, a rated item of similarity 0 to the
\* target, and a value that the average over all neighbours would miss.
C20_Witness ==
    /\ ItemRatingCall
    /\ Cardinality(PositiveNeighbours) > self.k_neighbors
    /\ result.value # WeightedAverage(PositiveNeighbours)
    /\ LET row == self.rating_matrix[IndexOf(self.user_id_to_idx, result.user_id)]
       IN \E j \in 1..Len(row) : row[j] > 0 /\ j \notin PositiveNeighbours

\* The matrix indices of the user and of the item of the call in result.
CallUser == IndexOf(self.user_id_to_idx, result.user_id)
CallItem == IndexOf(self.anime_id_to_idx, result.anime_id)

\* A predict_rating call on a fitted ItemCF / UserCF instance for a known
\* user and a known item without positive-similarity neighbour: ItemCF, no
\* item rated by the user is similar to the item; UserCF, no user similar to
\* the user rated the item.
NoNeighbourCall ==
    /\ kind \in {"item", "user"}
    /\ result.op = "predict_rating"
    /\ self.is_fitted
    /\ KnownUser
    /\ KnownAnime
    /\ IF kind = "item"
       THEN PositiveNeighbours = {}
       ELSE \A v \in 1..Len(self.rating_matrix) :
               ~(GetUserSimilarities(self, CallUser)[v] > 0
                 /\ self.rating_matrix[v][CallItem] > 0)

\* C21: predict_rating of ItemCF and of UserCF for a known user and item
\* with no positive-similarity neighbour returns the item's mean rating when
\* that mean is defined, otherwise the user's mean rating when defined,
\* otherwise 5.0; it never returns the 0 placeholder of an undefined mean.
C21_FallbackChain ==
    NoNeighbourCall =>
        LET col == Column(self.rating_matrix, CallItem)
            row == self.rating_matrix[CallUser]
        IN /\ result.value # 0
           /\ result.value =
                IF \E i \in 1..Len(col) : col[i] > 0 THEN MeanOfRated(col)
                ELSE IF \E j \in 1..Len(row) : row[j] > 0 THEN MeanOfRated(row)
                ELSE 5 * FP

\* The number of positive ratings each item received.
RatingCounts(s) ==
    [j \in 1..Len(s.anime_id_to_idx) |->
        Cardinality({i \in 1..Len(s.rating_matrix) : s.rating_matrix[i][j] > 0})]

\* C22: ItemCF.predict with popularity_weight w > 0 blends each valid
\* candidate's score as (1 - w) * score + w * popularity_normalized *
\* max(score), popularity_normalized being the number of positive ratings
\* of the item over the largest such number of the catalog: the returned
\* list is one that this blend ranks.
C22_PopularityIsRatingCount ==
    (kind = "item" /\ result.op = "predict" /\ result.status = "return"
     /\ self.popularity_weight > 0) =>
        Return(result.value) \in ItemPredictBy(self, result.user_id, result.n, RatingCounts(self))

\* The model with the similarity matrix left to be computed row on demand.
OnDemand(s) == [s EXCEPT !.item_similarity = None]

\* The lists predict can return from the prediction vector sc.
ListsOf(sc, n, ids) == {TopPositive(sc, p, n, ids) : p \in DescOrders(sc)}

\* C23: for the same rating data, user and n, ItemCF.predict returns the
\* same list with the materialized similarity matrix and with the rows
\* computed on demand: whenever the returned list comes from a prediction
\* vector of the materialized branch, a run of the on-demand branch either
\* computes the same vector or returns the same list.
C23_OnDemandEqualsMaterialized ==
    (kind = "item" /\ result.op = "predict" /\ result.status = "return"
     /\ self.item_similarity # None /\ result.user_id \in Range(self.user_id_to_idx)) =>
        LET uidx == IndexOf(self.user_id_to_idx, result.user_id)
            rated == {j \in 1..Len(self.rating_matrix[uidx]) : self.rating_matrix[uidx][j] > 0}
        IN \A nb1 \in ItemNeighbourChoices(self, rated),
              nb2 \in ItemNeighbourChoices(OnDemand(self), rated) :
              LET sc1 == ItemScores(self, uidx, nb1)
                  sc2 == ItemScores(OnDemand(self), uidx, nb2)
              IN result.value \in ListsOf(sc1, result.n, self.anime_id_to_idx) =>
                    \/ sc2 = sc1
                    \/ ListsOf(sc2, result.n, self.anime_id_to_idx) = {result.value}

\* The catalog index of the queried title of a get_similar_anime call.
QueriedIdx == LastIndexOf(self.anime_ids, result.anime_id)

\* The other catalog indices by descending similarity to the queried title,
\* equal similarities in catalog order.
OthersBySimilarity ==
    LET sims == ContentSimilarities(self, QueriedIdx)
        others == SelectSeq([i \in 1..Len(self.anime_ids) |-> i], LAMBDA i : i # QueriedIdx)
        sorted == SortedDesc([i \in 1..Len(others) |-> <<sims[others[i]], others[i]>>])
    IN [i \in 1..Len(sorted) |-> sorted[i][2]]

SimilarAnimeCall ==
    /\ kind = "content" /\ result.op = "get_similar_anime" /\ result.status = "return"
    /\ result.anime_id \in Range(self.anime_ids)

\* C24: get_similar_anime(item, n) for a known item never returns the item
\* itself and returns the n other items of highest cosine similarity, equal
\* similarities in catalog order, also when another catalog item has the
\* genre vector of the queried item.
C24_SimilarExcludesSelf ==
    SimilarAnimeCall =>
        /\ result.anime_id \notin Range(result.value)
        /\ result.value = [i \in 1..Min(result.n, Len(OthersBySimilarity)) |->
                              self.anime_ids[OthersBySimilarity[i]]]

\* The fitted catalog's titles without genre tags.
GenrelessIds == {a \in Range(self.anime_ids) : self.anime_data[a].genre = {}}

ContentListReturned ==
    /\ kind = "content" /\ self.is_fitted /\ result.status = "return"
    /\ result.op \in {"get_similar_anime", "predict"}

\* C25: a title without genre tags recommends nothing and receives nothing:
\* get_similar_anime of such a title returns no items, predict with only
\* such titles as liked returns the empty list, and no such title is in a
\* list get_similar_anime or predict returns.
C25_GenrelessIsolated ==
    ContentListReturned =>
        /\ (result.op = "get_similar_anime" /\ result.anime_id \in GenrelessIds) =>
              result.value = <<>>
        /\ (result.op = "predict" /\ result.liked # None /\ result.liked # <<>>
            /\ Range(result.liked) \subseteq GenrelessIds) => result.value = <<>>
        /\ Range(result.value) \cap GenrelessIds = {}

\* The k most similar users among those who rated item j: the target user
\* and the users of non-positive similarity left out, equal similarities in
\* index order.
RatingNeighbours(j) ==
    LET sims == GetUserSimilarities(self, CallUser)
        raters == {v \in 1..Len(self.rating_matrix) :
                      v # CallUser /\ sims[v] > 0 /\ self.rating_matrix[v][j] > 0}
        before(w, v) == sims[w] > sims[v] \/ (sims[w] = sims[v] /\ w < v)
    IN {v \in raters : Cardinality({w \in raters : before(w, v)}) < self.k_neighbors}

\* The similarity-weighted average of the ratings the users T gave item j.
UserWeightedAverage(T, j) ==
    LET sims == GetUserSimilarities(self, CallUser)
    IN (SumOver(T, [v \in T |-> sims[v] * self.rating_matrix[v][j]]) * FP)
           \div SumOver(T, [v \in T |-> sims[v]])

UserCFCall ==
    /\ kind = "user" /\ self.is_fitted /\ result.status = "return" /\ KnownUser
    /\ result.op \in {"predict", "predict_rating"}

\* C26: UserCF.predict_rating and UserCF.predict take as neighbours the k
\* most similar users among those who rated the candidate item (target user
\* and non-positive similarities excluded, ties by index), so a
\* positive-similarity rater is used whenever fewer than k more-similar
\* raters of the item exist: predict_rating is the weighted average over
\* these neighbours, and predict scores every unrated item that has one.
C26_NeighboursAmongRaters ==
    UserCFCall =>
        /\ (result.op = "predict_rating" /\ KnownAnime /\ RatingNeighbours(CallItem) # {}) =>
              result.value = UserWeightedAverage(RatingNeighbours(CallItem), CallItem)
        /\ (result.op = "predict" /\ Len(result.value) < result.n) =>
              \A j \in 1..Len(self.anime_id_to_idx) :
                  (self.rating_matrix[CallUser][j] = 0 /\ RatingNeighbours(j) # {}) =>
                      self.anime_id_to_idx[j] \in Range(result.value)

\* The <<score, index>> pairs by descending score, equal scores by ascending
\* index.
ByScoreThenIndex(pairs) ==
    LET idxs == SortedSeq({pairs[i][2] : i \in 1..Len(pairs)})
        at(j) == CHOOSE i \in 1..Len(pairs) : pairs[i][2] = j
        sorted == SortedDesc([i \in 1..Len(idxs) |-> pairs[at(idxs[i])]])
    IN [i \in 1..Len(sorted) |-> sorted[i][2]]

\* The lists predict returns when equal scores are in ascending index order.
IndexOrderedLists ==
    LET uidx == CallUser
        n == result.n
    IN IF kind = "item"
       THEN LET rated == {j \in 1..Len(self.rating_matrix[uidx]) : self.rating_matrix[uidx][j] > 0}
            IN {LET sc == ItemScores(self, uidx, nb)
                IN TopPositive(sc, ByScoreThenIndex([j \in 1..Len(sc) |-> <<sc[j], j>>]),
                               n, self.anime_id_to_idx) :
                   nb \in ItemNeighbourChoices(self, rated)}
       ELSE {LET p == ByScoreThenIndex(UserPredRatings(self, uidx, order))
             IN [i \in 1..Min(n, Len(p)) |-> self.anime_id_to_idx[p[i]]] :
                order \in DescOrders(GetUserSimilarities(self, uidx))}

\* C27: ItemCF.predict and UserCF.predict return the candidates in
\* descending score order, two candidates of equal score in ascending
\* candidate (matrix column) index order.
C27_TiesInIndexOrder ==
    (kind \in {"item", "user"} /\ self.is_fitted /\ result.op = "predict"
     /\ result.status = "return" /\ KnownUser) =>
        result.value \in IndexOrderedLists

-----------------------------------------------------------------------------
(* rate_anime   app/api/user.py:187-259                                    *)
(* Requests run concurrently; every await of a database call is one       *)
(* atomic step of the request.  The unique (user_id, anime_id) index of    *)
(* ratings is created by the data loader only (data/loader.py:95); the     *)
(* API does not create it, so a database can be with or without it.        *)

MaxCalls == 2
Calls == 1..MaxCalls
AnimesCol == {1}
RateUsers == {1, 2}
RateAnimeIds == {1, 9}
RateRatings == {3, 8}

RatingDoc(id, user_id, anime_id, rating, timestamp) ==
    [_id |-> id, user_id |-> user_id, anime_id |-> anime_id, rating |-> rating,
     timestamp |-> timestamp]

NoExisting == [found |-> FALSE, _id |-> 0, rating |-> 0]
IdleCall ==
    [pc |-> "idle", user_id |-> 0, anime_id |-> 0, rating |-> 0,
     existing |-> NoExisting, now |-> 0, action |-> "", old_rating |-> None]

\* The documents of (user_id, anime_id), in natural order.
RatingsOfPair(col, user_id, anime_id) ==
    SelectSeq(col, LAMBDA d : d.user_id = user_id /\ d.anime_id = anime_id)

RateInit ==
    /\ rate_index \in BOOLEAN
    /\ ratings_col \in {<<>>, <<RatingDoc(1, 1, 1, 5, 0)>>}
    /\ history_col = <<>>
    /\ rate_calls = [c \in Calls |-> IdleCall]
    /\ rate_clock = 1
    /\ rate_order = <<>>

\* user.py:188-205: the request arrives; animes_col.find_one, 404 when the
\* anime is not in the catalog
rate_anime_find_anime(c) ==
    /\ rate_calls[c].pc = "idle"
    /\ \A b \in 1..(c - 1) : rate_calls[b].pc # "idle"
    /\ \E user_id \in RateUsers, anime_id \in RateAnimeIds, rating \in RateRatings :
        rate_calls' = [rate_calls EXCEPT ![c] =
            [@ EXCEPT !.user_id = user_id, !.anime_id = anime_id, !.rating = rating,
                      !.pc = IF anime_id \in AnimesCol THEN "find_rating" ELSE "raised_404"]]
    /\ UNCHANGED <<rate_index, ratings_col, history_col, rate_clock, rate_order>>

\* user.py:208-213: ratings_col.find_one of the pair, then now = utcnow()
rate_anime_find_rating(c) ==
    /\ rate_calls[c].pc = "find_rating"
    /\ LET found == RatingsOfPair(ratings_col, rate_calls[c].user_id, rate_calls[c].anime_id)
       IN rate_calls' = [rate_calls EXCEPT ![c] =
            [@ EXCEPT !.existing = IF found = <<>> THEN NoExisting
                                   ELSE [found |-> TRUE, _id |-> found[1]._id,
                                         rating |-> found[1].rating],
                      !.now = rate_clock,
                      !.pc = "write"]]
    /\ rate_clock' = rate_clock + 1
    /\ UNCHANGED <<rate_index, ratings_col, history_col, rate_order>>

\* user.py:215-222: update_one of the document found, by its _id
rate_anime_update(c) ==
    /\ rate_calls[c].pc = "write"
    /\ rate_calls[c].existing.found
    /\ ratings_col' = [i \in 1..Len(ratings_col) |->
            IF ratings_col[i]._id = rate_calls[c].existing._id
            THEN [ratings_col[i] EXCEPT !.rating = rate_calls[c].rating,
                                        !.timestamp = rate_calls[c].now]
            ELSE ratings_col[i]]
    /\ rate_calls' = [rate_calls EXCEPT ![c] =
            [@ EXCEPT !.action = "updated", !.old_rating = rate_calls[c].existing.rating,
                      !.pc = "history"]]
    /\ UNCHANGED <<rate_index, history_col, rate_clock, rate_order>>

\* user.py:223-233: insert_one of a new document
rate_anime_insert(c) ==
    /\ rate_calls[c].pc = "write"
    /\ ~rate_calls[c].existing.found
    /\ ~(rate_index /\ RatingsOfPair(ratings_col, rate_calls[c].user_id,
                                      rate_calls[c].anime_id) # <<>>)
    /\ ratings_col' = Append(ratings_col,
            RatingDoc(Len(ratings_col) + 1, rate_calls[c].user_id, rate_calls[c].anime_id,
                      rate_calls[c].rating, rate_calls[c].now))
    /\ rate_calls' = [rate_calls EXCEPT ![c] =
            [@ EXCEPT !.action = "created", !.old_rating = None, !.pc = "history"]]
    /\ UNCHANGED <<rate_index, history_col, rate_clock, rate_order>>

\* user.py:231 and 255-259: with the unique index, insert_one of a pair that
\* has a document raises DuplicateKeyError, answered with status 500
rate_anime_insert_Duplicate(c) ==
    /\ rate_calls[c].pc = "write"
    /\ ~rate_calls[c].existing.found
    /\ rate_index
    /\ RatingsOfPair(ratings_col, rate_calls[c].user_id, rate_calls[c].anime_id) # <<>>
    /\ rate_calls' = [rate_calls EXCEPT ![c] = [@ EXCEPT !.pc = "raised_500"]]
    /\ UNCHANGED <<rate_index, ratings_col, history_col, rate_clock, rate_order>>

\* user.py:235-251: the history entry is inserted and the request returns
rate_anime_return(c) ==
    /\ rate_calls[c].pc = "history"
    /\ history_col' = Append(history_col,
            [user_id |-> rate_calls[c].user_id, anime_id |-> rate_calls[c].anime_id,
             action |-> "rate", timestamp |-> rate_calls[c].now,
             details |-> [rating |-> rate_calls[c].rating,
                          previous |-> rate_calls[c].old_rating]])
    /\ rate_calls' = [rate_calls EXCEPT ![c] = [@ EXCEPT !.pc = "returned"]]
    /\ rate_order' = Append(rate_order, c)
    /\ UNCHANGED <<rate_index, ratings_col, rate_clock>>

RateNext ==
    \/ \E c \in Calls : rate_anime_find_anime(c)
          /\ UNCHANGED <<splitVars, ctorVars, modelVars, metricVars, storeVars, evalVars>>
    \/ \E c \in Calls : rate_anime_find_rating(c)
          /\ UNCHANGED <<splitVars, ctorVars, modelVars, metricVars, storeVars, evalVars>>
    \/ \E c \in Calls : rate_anime_update(c)
          /\ UNCHANGED <<splitVars, ctorVars, modelVars, metricVars, storeVars, evalVars>>
    \/ \E c \in Calls : rate_anime_insert(c)
          /\ UNCHANGED <<splitVars, ctorVars, modelVars, metricVars, storeVars, evalVars>>
    \/ \E c \in Calls : rate_anime_insert_Duplicate(c)
          /\ UNCHANGED <<splitVars, ctorVars, modelVars, metricVars, storeVars, evalVars>>
    \/ \E c \in Calls : rate_anime_return(c)
          /\ UNCHANGED <<splitVars, ctorVars, modelVars, metricVars, storeVars, evalVars>>

InitRate ==
    RateInit /\ SplitIdle /\ CtorIdle /\ ModelIdle /\ MetricIdle /\ StoreIdle /\ EvalIdle

SpecRate == InitRate /\ [][RateNext]_vars

\* No request is between its first database call and its answer.
RateQuiet == \A c \in Calls : rate_calls[c].pc \in {"idle", "returned", "raised_404", "raised_500"}

\* The requests for (user_id, anime_id) that returned, in order of return.
ReturnedFor(user_id, anime_id) ==
    SelectSeq(rate_order, LAMBDA c : rate_calls[c].user_id = user_id
                                      /\ rate_calls[c].anime_id = anime_id)

\* C28: under any interleaving of rate_anime calls for one (user, anime)
\* pair, the ratings collection ends with exactly one document for the
\* pair, holding the rating of the call that completed last: no
\* interleaving leaves two documents for the pair or loses the last rating.
C28_OneRatingPerPair ==
    RateQuiet =>
        \A user_id \in RateUsers, anime_id \in RateAnimeIds :
            LET done == ReturnedFor(user_id, anime_id)
                docs == RatingsOfPair(ratings_col, user_id, anime_id)
            IN done # <<>> =>
                  /\ Len(docs) = 1
                  /\ docs[1].rating = rate_calls[done[Len(done)]].rating

\* C29: train_test_split partitions its input: when it returns, every input
\* event occurs in train and test together as often as in the input (none
\* dropped, none duplicated, none in both), for every test_ratio and
\* min_ratings, and every user of the input with more than min_ratings
\* events has at least one event in test.
C29_SplitPartitions ==
    split_pc = "done" =>
        /\ Len(train) + Len(test) = Len(ratings)
        /\ \A e \in SplitEvents :
              CountEvent(train, e) + CountEvent(test, e) = CountEvent(ratings, e)
        /\ \A u \in SplitUserIds :
              (CountUser(ratings, u) >= 1 /\ CountUser(ratings, u) > min_ratings) =>
                  CountUser(test, u) >= 1

\* A returned split of an input with a repeated event, in which a user with
\* more events than min_ratings has events on both sides and the other user
\* is whole in train.
C29_Witness ==
    /\ split_pc = "done"
    /\ \E e \in SplitEvents : CountEvent(ratings, e) >= 2
    /\ \E u, v \in SplitUserIds :
        /\ CountUser(ratings, u) > min_ratings
        /\ CountUser(train, u) >= 1
        /\ CountUser(test, u) >= 1
        /\ CountUser(ratings, v) >= 1
        /\ CountUser(test, v) = 0

\* C30: ndcg_at_k(recommended, relevant, k) lies in [0,1] for all inputs,
\* recommended or relevant lists with repeated item ids and lists shorter
\* than k included.
C30_NdcgInUnitInterval ==
    metric_out.fn = "ndcg_at_k" => InUnitInterval(metric_out.value)

=============================================================================
